---- MODULE Spec2Model ----
(***************************************************************************)
(* Model of the DSL suggestions engine (dslSuggestionsEngine.js v3.00),    *)
(* its consolidated rules (dslRules.js) and the shared rule utilities      *)
(* (dslRuleUtilities.js).                                                  *)
(*                                                                         *)
(* Strings are sequences of one-character strings.  Positions, columns     *)
(* and indexes keep JavaScript's 0-based numbering; CharAt converts.       *)
(***************************************************************************)
EXTENDS Integers, Sequences, FiniteSets, TLC

VARIABLES
    \* ---- lexical utilities driver (SpecLex) ----
    lexLine,      \* the line handed to the utilities
    lexMasked,    \* result of removeStringLiterals(lexLine), <<>> before the call
    lexMaskDone,  \* removeStringLiterals has been called
    lexPos,       \* position handed to isInsideString, -1 before the call
    lexInside,    \* result of isInsideString(lexLine, lexPos)
    call,         \* the last direct call of a helper function: arguments and result
    \* ---- engine (Spec) ----
    config,       \* window.dslSuggestionsConfigData
    formUI,       \* window.__forceFormSelection, window.__currentFormSelection, checked radio
    code,         \* the text in the input panel
    counters,     \* rule name -> that rule object's _instanceCounter
    last,         \* the last engine call: its input and what it returned
    passes,       \* applyCodeSuggestions calls since the text was loaded
    \* ---- script loading (SpecLoad) ----
    entry,               \* the loading function that was called, "none" before
    globals,             \* the names of the global variables that are defined
    configLoadAttempts,  \* configLoadAttempts of loadSuggestionsConfig
    tracker,             \* tracker.files: file name -> status, attempts, maxAttempts
    pending,             \* script elements and timers whose event has not fired yet
    observed,            \* callbacks invoked and events dispatched, in order
    ruleRegistry,        \* the argument of loadSuggestionRules
    rulesLoaded,         \* rulesLoaded of loadSuggestionRules
    loadedRules          \* loadedRules of loadSuggestionRules

lexVars == <<lexLine, lexMasked, lexMaskDone, lexPos, lexInside, call>>

engineVars == <<config, formUI, code, counters, last, passes>>

loadVars == <<entry, globals, configLoadAttempts, tracker, pending, observed,
              ruleRegistry, rulesLoaded, loadedRules>>

vars == <<lexLine, lexMasked, lexMaskDone, lexPos, lexInside, call,
          config, formUI, code, counters, last, passes,
          entry, globals, configLoadAttempts, tracker, pending, observed,
          ruleRegistry, rulesLoaded, loadedRules>>

ConfigFile == "dslSuggestionsConfig.js"
ConfigGlobal == "dslSuggestionsConfigData"

\* the tracker entry of the configuration file when the loader module is set up
InitialTracker ==
    [f \in {ConfigFile} |->
        [status |-> "Not Attempted", attempts |-> 0, maxAttempts |-> 3]]

NoRegistry == [isArray |-> FALSE, items |-> <<>>]

\* no loading function has been called
LoadIdle ==
    /\ entry = "none"
    /\ globals = {}
    /\ configLoadAttempts = 0
    /\ tracker = InitialTracker
    /\ pending = {}
    /\ observed = <<>>
    /\ ruleRegistry = NoRegistry
    /\ rulesLoaded = 0
    /\ loadedRules = <<>>

(***************************************************************************)
(* Bounds                                                                  *)
(***************************************************************************)
MaxLexLen == 4

(***************************************************************************)
(* Characters                                                              *)
(***************************************************************************)
DQ == "\""
SQ == "'"
BS == "\\"
SP == " "
NL == "\n"

\* JavaScript str.charAt(i) / str[i] for 0 <= i < length
CharAt(s, i) == s[i + 1]

\* JavaScript str.substring(a, b) for 0 <= a, b (clamped to the length)
Substring(s, a, b) ==
    LET lo == IF a < b THEN a ELSE b
        hi == IF a < b THEN b ELSE a
        h  == IF hi > Len(s) THEN Len(s) ELSE hi
    IN  IF lo >= h THEN <<>> ELSE SubSeq(s, lo + 1, h)

(***************************************************************************)
(* DSLRuleUtils.String                                                     *)
(***************************************************************************)

\* The delimiter test shared by both scanners:
\* (char === '"' || char === "'") && (i === 0 || line[i-1] !== '\\')
IsDelimiterAt(line, i) ==
    /\ CharAt(line, i) \in {DQ, SQ}
    /\ (i = 0 \/ CharAt(line, i - 1) # BS)

\* The scanner state (inString, stringChar) after the loop body has run at
\* index i from the state prev.  stringChar is "" where the code holds null.
\* Only an unescaped quote changes the state.
ScanStep(line, i, prev) ==
    IF IsDelimiterAt(line, i)
    THEN IF ~prev.inString
         THEN [inString |-> TRUE, stringChar |-> CharAt(line, i)]
         ELSE IF CharAt(line, i) = prev.stringChar
              THEN [inString |-> FALSE, stringChar |-> ""]
              ELSE prev
    ELSE prev

ScanStart == [inString |-> FALSE, stringChar |-> ""]

\* the loop body run at the indexes of the set delimiters, in ascending order
RECURSIVE ScanOver(_, _, _)
ScanOver(line, delimiters, st) ==
    IF delimiters = {} THEN st
    ELSE LET i == CHOOSE x \in delimiters : \A y \in delimiters : x <= y
         IN  ScanOver(line, delimiters \ {i}, ScanStep(line, i, st))

\* the indexes of the unescaped quotes of the line
Delimiters(line) == {i \in 0..(Len(line) - 1) : IsDelimiterAt(line, i)}

\* The scanner state after the loop body has run for indexes 0 .. n-1
ScanState(line, n) ==
    ScanOver(line, {i \in Delimiters(line) : i < n}, ScanStart)

\* a faulty masking that blanks the content of a literal and keeps its quotes
MaskedCharAt_KeepsDelimiters(line, i, delimiters) ==
    IF i \in delimiters THEN CharAt(line, i)
    ELSE IF ScanOver(line, {d \in delimiters : d < i}, ScanStart).inString THEN SP
    ELSE CharAt(line, i)

\* removeStringLiterals(line): the character appended to result at index i,
\* delimiters being the indexes of the unescaped quotes of the line
MaskedCharAt(line, i, delimiters) ==
    IF i \in delimiters THEN SP
    ELSE IF ScanOver(line, {d \in delimiters : d < i}, ScanStart).inString THEN SP
    ELSE CharAt(line, i)

\* a faulty mask that leaves the literals in the line
removeStringLiterals_KeepsLiterals(line) == line

removeStringLiterals(line) ==
    LET delimiters == Delimiters(line)
    IN  [k \in 1..Len(line) |-> MaskedCharAt(line, k - 1, delimiters)]

\* isInsideString(line, position): the loop runs for i < position && i < length
isInsideString(line, position) ==
    LET n == IF position < Len(line) THEN position ELSE Len(line)
    IN  ScanState(line, IF n < 0 THEN 0 ELSE n).inString

(***************************************************************************)
(* JavaScript string primitives the rules use                              *)
(***************************************************************************)
Min(S) == CHOOSE x \in S : \A y \in S : x <= y
Max(S) == 0 - Min({0 - x : x \in S})

Lower == {"a","b","c","d","e","f","g","h","i","j","k","l","m",
          "n","o","p","q","r","s","t","u","v","w","x","y","z"}
Upper == {"A","B","C","D","E","F","G","H","I","J","K","L","M",
          "N","O","P","Q","R","S","T","U","V","W","X","Y","Z"}
Digits == {"0","1","2","3","4","5","6","7","8","9"}

IdentStartChars == Lower \cup Upper \cup {"_", "$"}
IdentChars      == IdentStartChars \cup Digits
WordChars       == Lower \cup Upper \cup Digits \cup {"_"}
SpaceChars      == {SP, "\t", NL}

IsIdentStart(c) == c \in IdentStartChars   \* [a-zA-Z_$]
IsIdentChar(c)  == c \in IdentChars        \* [a-zA-Z0-9_$]
IsWordChar(c)   == c \in WordChars         \* \w
IsSpace(c)      == c \in SpaceChars        \* \s

\* s has lit at 0-based index i
StartsWithAt(s, i, lit) ==
    /\ i >= 0
    /\ i + Len(lit) <= Len(s)
    /\ (Len(lit) = 0 \/ (s[i + 1] = lit[1] /\ SubSeq(s, i + 1, i + Len(lit)) = lit))

\* str.indexOf(lit)
IndexOf(s, lit) ==
    LET hits == {i \in 0..(Len(s) - Len(lit)) : StartsWithAt(s, i, lit)}
    IN  IF hits = {} THEN -1 ELSE Min(hits)

\* where a greedy \s* that starts at index i ends
RECURSIVE SkipSpaces(_, _)
SkipSpaces(s, i) ==
    IF i < Len(s) /\ IsSpace(CharAt(s, i)) THEN SkipSpaces(s, i + 1) ELSE i

\* where a greedy [a-zA-Z0-9_$]* that starts at index i ends
RECURSIVE SkipIdent(_, _)
SkipIdent(s, i) ==
    IF i < Len(s) /\ IsIdentChar(CharAt(s, i)) THEN SkipIdent(s, i + 1) ELSE i

\* str.trim()
Trim(s) ==
    LET keep == {i \in 0..(Len(s) - 1) : ~IsSpace(CharAt(s, i))}
    IN  IF keep = {} THEN <<>> ELSE SubSeq(s, Min(keep) + 1, Max(keep) + 1)

\* code.split('\n')
RECURSIVE SplitLines(_)
SplitLines(text) ==
    LET i == IndexOf(text, <<NL>>)
    IN  IF i = -1 THEN <<text>>
        ELSE <<SubSeq(text, 1, i)>> \o SplitLines(SubSeq(text, i + 2, Len(text)))

\* lines.join('\n')
RECURSIVE JoinLines(_)
JoinLines(lines) ==
    IF Len(lines) = 0 THEN <<>>
    ELSE IF Len(lines) = 1 THEN lines[1]
    ELSE lines[1] \o <<NL>> \o JoinLines(Tail(lines))

\* str.split(pat).join(val): every occurrence, left to right, not overlapping
RECURSIVE SplitJoin(_, _, _)
SplitJoin(s, pat, val) ==
    LET i == IndexOf(s, pat)
    IN  IF i = -1 THEN s
        ELSE SubSeq(s, 1, i) \o val \o SplitJoin(SubSeq(s, i + Len(pat) + 1, Len(s)), pat, val)

\* the replacement text of str.replace(pattern, newSubstr) for one match: $$ is
\* a dollar sign and $& the matched text
RECURSIVE ExpandReplacement(_, _)
ExpandReplacement(rep, matched) ==
    IF \A k \in 1..Len(rep) : rep[k] # "$" THEN rep
    ELSE IF Len(rep) >= 2 /\ rep[1] = "$" /\ rep[2] = "$"
    THEN <<"$">> \o ExpandReplacement(SubSeq(rep, 3, Len(rep)), matched)
    ELSE IF Len(rep) >= 2 /\ rep[1] = "$" /\ rep[2] = "&"
    THEN matched \o ExpandReplacement(SubSeq(rep, 3, Len(rep)), matched)
    ELSE <<Head(rep)>> \o ExpandReplacement(Tail(rep), matched)

\* str.replace(pat, val) with a string pattern: the first occurrence only,
\* val being read as a replacement text
ReplaceFirst(s, pat, val) ==
    LET i == IndexOf(s, pat)
    IN  IF i = -1 THEN s
        ELSE SubSeq(s, 1, i) \o ExpandReplacement(val, pat) \o SubSeq(s, i + Len(pat) + 1, Len(s))

\* start indexes of the matches of a global regex for the literal lit, as
\* repeated exec finds them: leftmost first, the next search after the match
RECURSIVE LiteralMatches(_, _, _)
LiteralMatches(s, lit, from) ==
    LET hits == {i \in from..(Len(s) - Len(lit)) : StartsWithAt(s, i, lit)}
    IN  IF hits = {} \/ Len(lit) = 0 THEN <<>>
        ELSE <<Min(hits)>> \o LiteralMatches(s, lit, Min(hits) + Len(lit))

\* str.replace(new RegExp(escaped literal, 'g'), val)
RECURSIVE ReplaceAllLiteral(_, _, _)
ReplaceAllLiteral(s, lit, val) ==
    LET i == IndexOf(s, lit)
    IN  IF i = -1 \/ Len(lit) = 0 THEN s
        ELSE SubSeq(s, 1, i) \o val \o ReplaceAllLiteral(SubSeq(s, i + Len(lit) + 1, Len(s)), lit, val)

(***************************************************************************)
(* JavaScript values and objects.  An object is a function from its own    *)
(* property names; a missing property is a name outside its DOMAIN.        *)
(***************************************************************************)
EmptyObject == [k \in {} |-> TRUE]

Has(obj, key) == key \in DOMAIN obj

\* obj[key] is the boolean true (the model's flags are booleans or absent)
Truthy(obj, key) == Has(obj, key) /\ obj[key] = TRUE

\* obj[key] || dflt
OrDefault(obj, key, dflt) == IF Has(obj, key) THEN obj[key] ELSE dflt

\* A string argument, and the array RegExp.prototype.exec returns
JSString(chars) == [type |-> "string", chars |-> chars]
JSMatch(index, chars) == [type |-> "array", index |-> index, chars |-> chars]

(***************************************************************************)
(* DSLRuleUtils.Regex and DSLRuleUtils.Message                             *)
(***************************************************************************)
RegexMeta == {".", "*", "+", "?", "^", "$", "{", "}", "(", ")", "|", "[", "]", BS}

RECURSIVE EscapeChars(_)
EscapeChars(s) ==
    IF \A k \in 1..Len(s) : s[k] \notin RegexMeta THEN s
    ELSE (IF Head(s) \in RegexMeta THEN <<BS, Head(s)>> ELSE <<Head(s)>>)
         \o EscapeChars(Tail(s))

\* Regex.escape(str): str.replace(...) exists on strings only
RegexEscape(v) ==
    IF v.type = "string"
    THEN [threw |-> FALSE, value |-> EscapeChars(v.chars)]
    ELSE [threw |-> TRUE, value |-> <<>>]

\* The text a pattern source made of plain and backslash-escaped characters
\* matches
RECURSIVE PatternLiteral(_)
PatternLiteral(p) ==
    IF \A k \in 1..Len(p) : p[k] # BS THEN p
    ELSE IF Head(p) = BS /\ Len(p) >= 2
         THEN <<p[2]>> \o PatternLiteral(SubSeq(p, 3, Len(p)))
         ELSE <<Head(p)>> \o PatternLiteral(Tail(p))

\* Message.replacePlaceholders(template, values); values lists the object's
\* [key, value] pairs in property order
RECURSIVE replacePlaceholders(_, _)
replacePlaceholders(template, values) ==
    IF values = <<>> THEN template
    ELSE replacePlaceholders(
             SplitJoin(template, <<"{">> \o values[1].key \o <<"}">>, values[1].value),
             Tail(values))

(***************************************************************************)
(* What the rules share                                                    *)
(***************************************************************************)
DigitChars == <<"0","1","2","3","4","5","6","7","8","9">>

\* String(n) for n >= 0
RECURSIVE Decimal(_)
Decimal(n) ==
    IF n < 10 THEN <<DigitChars[n + 1]>>
    ELSE Decimal(n \div 10) \o <<DigitChars[(n % 10) + 1]>>

RECURSIVE SortedSeq(_)
SortedSeq(S) ==
    IF S = {} THEN <<>> ELSE <<Min(S)>> \o SortedSeq(S \ {Min(S)})

\* a faulty check that never resets its counter
ResetCounter_Never(counter, lineNumber) == counter

\* "Reset counter at start of new analysis": the first statement of every check
ResetCounter(counter, lineNumber) ==
    IF lineNumber = 1 THEN 0 ELSE counter

\* config.suggestionRules.<name>: a TypeError when config.suggestionRules is
\* undefined, undefined when the rule has no entry
ReadRuleConfig(cfg, name) ==
    IF ~Has(cfg, "suggestionRules")
    THEN [threw |-> TRUE, defined |-> FALSE, value |-> EmptyObject]
    ELSE IF ~Has(cfg.suggestionRules, name)
    THEN [threw |-> FALSE, defined |-> FALSE, value |-> EmptyObject]
    ELSE [threw |-> FALSE, defined |-> TRUE, value |-> cfg.suggestionRules[name]]

\* a faulty check that counts every call, whether it reported or not
CheckReturns_CountsCall(suggestions, counter) ==
    [threw |-> FALSE, suggestions |-> suggestions, counter |-> counter + 1]

\* what a check hands back: the exception flag, the suggestions of the line and
\* the rule object's counter after the call
CheckThrew(counter) == [threw |-> TRUE, suggestions |-> <<>>, counter |-> counter]
CheckReturns(suggestions, counter) ==
    [threw |-> FALSE, suggestions |-> suggestions, counter |-> counter]

\* ruleConfig.fixTemplates && ruleConfig.fixTemplates.traditional !==
\* ruleConfig.fixTemplates.method; the property is left out where the code
\* stores undefined
HasDifferentForms(ruleConfig) ==
    IF ~Has(ruleConfig, "fixTemplates") THEN EmptyObject
    ELSE LET ft == ruleConfig.fixTemplates
             t  == IF Has(ft, "traditional") THEN <<ft.traditional>> ELSE <<>>
             m  == IF Has(ft, "method") THEN <<ft.method>> ELSE <<>>
         IN  [hasDifferentForms |-> t # m]

\* a variant that has no hardcoded template to fall back to
TemplateFor_NoFallback(ruleConfig, fixStyle, fallback) ==
    IF Has(ruleConfig, "fixTemplates") /\ Has(ruleConfig.fixTemplates, fixStyle)
    THEN ruleConfig.fixTemplates[fixStyle]
    ELSE <<>>

\* ruleConfig.fixTemplates && ruleConfig.fixTemplates[fixStyle], or the
\* rule's hardcoded template
TemplateFor(ruleConfig, fixStyle, fallback) ==
    IF Has(ruleConfig, "fixTemplates") /\ Has(ruleConfig.fixTemplates, fixStyle)
    THEN ruleConfig.fixTemplates[fixStyle]
    ELSE fallback

\* what a fix hands back
FixThrew(text) == [threw |-> TRUE, code |-> text]
FixReturns(text) == [threw |-> FALSE, code |-> text]

(***************************************************************************)
(* Rule 1: divisionOperations                                              *)
(***************************************************************************)
DivisionDefaultMessage ==
    <<"D","i","v","i","s","i","o","n",SP,"o","p","e","r","a","t","i",
        "o","n",SP,"d","e","t","e","c","t","e","d",".",SP,"C","o","n",
        "s","i","d","e","r",SP,"u","s","i","n","g",SP,"i","f","N","a",
        "N","(","{","e","x","p","r","e","s","s","i","o","n","}",",",SP,
        "0",")",SP,"t","o",SP,"p","r","e","v","e","n","t",SP,"d","i",
        "v","i","s","i","o","n",SP,"b","y",SP,"z","e","r","o",SP,"e",
        "r","r","o","r","s",".">>

DivisionDefaultTemplate == <<"i","f","N","a","N","(","{","e","x","p","r","e","s","s","i","o",
        "n","}",",",SP,"{","d","e","f","a","u","l","t","A","l","t","V",
        "a","l","u","e","}",")">>

\* matches of /\/(?!=)/g
DivisionPositions(masked) ==
    SortedSeq({i \in 0..(Len(masked) - 1) :
                  /\ CharAt(masked, i) = "/"
                  /\ (i + 1 >= Len(masked) \/ CharAt(masked, i + 1) # "=")})

\* a variant that takes everything up to the end of the line
_extractExpression_ToLineEnd(line, divPosition) ==
    LET starts == {i \in 0..(divPosition - 1) : CharAt(line, i) \in {"=", ",", "("}}
        start  == IF starts = {} THEN 0 ELSE Max(starts) + 1
    IN  Trim(Substring(line, start, Len(line)))

_extractExpression(line, divPosition) ==
    LET starts == {i \in 0..(divPosition - 1) : CharAt(line, i) \in {"=", ",", "("}}
        start  == IF starts = {} THEN 0 ELSE Max(starts) + 1
        ends   == {i \in (divPosition + 1)..(Len(line) - 1) : CharAt(line, i) \in {",", ")"}}
        end    == IF ends = {} THEN Len(line) ELSE Min(ends)
    IN  Trim(Substring(line, start, end))

\* new RegExp(funcName + '\\s*\\(\\s*' + escapedExpression).test(line)
WrappedPatternTest(line, funcName, escapedExpression) ==
    LET lit == PatternLiteral(escapedExpression)
    IN  \E i \in 0..Len(line) :
           /\ StartsWithAt(line, i, funcName)
           /\ LET j == SkipSpaces(line, i + Len(funcName))
              IN  /\ j < Len(line)
                  /\ CharAt(line, j) = "("
                  /\ \E k \in (j + 1)..SkipSpaces(line, j + 1) : StartsWithAt(line, k, lit)

\* scans skipFunctions in order; Regex.escape(expression) is the first call of
\* the loop body
_isAlreadyWrapped(line, expression, ruleConfig) ==
    LET skipFunctions == OrDefault(ruleConfig, "skipIfWrappedIn", <<>>)
    IN  IF Len(skipFunctions) = 0 THEN [threw |-> FALSE, value |-> FALSE]
        ELSE LET esc == RegexEscape(expression)
             IN  IF esc.threw THEN [threw |-> TRUE, value |-> FALSE]
                 ELSE [threw |-> FALSE,
                       value |-> \E n \in 1..Len(skipFunctions) :
                                    WrappedPatternTest(line, skipFunctions[n], esc.value)]

DivisionSuggestion(lineNumber, divPosition, expression, ruleConfig, instanceNumber) ==
    [line |-> lineNumber,
     column |-> divPosition,
     message |-> replacePlaceholders(
                     OrDefault(ruleConfig, "suggestion", DivisionDefaultMessage),
                     <<[key |-> <<"e","x","p","r","e","s","s","i","o","n">>, value |-> expression]>>),
     severity |-> OrDefault(ruleConfig, "severity", "warning"),
     rule |-> "divisionOperations",
     label |-> OrDefault(ruleConfig, "label", "divisionOperations"),
     fixable |-> TRUE,
     original |-> expression,
     instanceNumber |-> instanceNumber] @@ HasDifferentForms(ruleConfig)

\* the while loop over the matches of one line
RECURSIVE DivisionScan(_, _, _, _, _, _, _, _)
DivisionScan(line, lineNumber, masked, ruleConfig, positions, processed, suggestions, counter) ==
    IF positions = <<>> THEN CheckReturns(suggestions, counter)
    ELSE LET divPosition == Head(positions)
             rest        == Tail(positions)
             expression  == _extractExpression(masked, divPosition)
             wrapped     == _isAlreadyWrapped(masked, JSString(expression), ruleConfig)
         IN  IF isInsideString(line, divPosition)
             THEN DivisionScan(line, lineNumber, masked, ruleConfig, rest,
                               processed, suggestions, counter)
             ELSE IF expression = <<>>
             THEN DivisionScan(line, lineNumber, masked, ruleConfig, rest,
                               processed, suggestions, counter)
             ELSE IF expression \in processed
             THEN DivisionScan(line, lineNumber, masked, ruleConfig, rest,
                               processed, suggestions, counter)
             ELSE IF wrapped.threw THEN CheckThrew(counter)
             ELSE IF wrapped.value
             THEN DivisionScan(line, lineNumber, masked, ruleConfig, rest,
                               processed \cup {expression}, suggestions, counter)
             ELSE DivisionScan(line, lineNumber, masked, ruleConfig, rest,
                               processed \cup {expression},
                               Append(suggestions,
                                      DivisionSuggestion(lineNumber, divPosition, expression,
                                                         ruleConfig, counter + 1)),
                               counter + 1)

DivisionCheck(line, lineNumber, allLines, cfg, counter0) ==
    LET counter == ResetCounter(counter0, lineNumber)
        rc      == ReadRuleConfig(cfg, "divisionOperations")
        masked  == removeStringLiterals(line)
    IN  IF rc.threw THEN CheckThrew(counter)
        ELSE IF ~rc.defined \/ ~Truthy(rc.value, "enabled") THEN CheckReturns(<<>>, counter)
        ELSE IF IndexOf(line, <<"/","*">>) # -1 /\ IndexOf(line, <<"*","/">>) # -1
        THEN CheckReturns(<<>>, counter)
        ELSE DivisionScan(line, lineNumber, masked, rc.value, DivisionPositions(masked),
                          {}, <<>>, counter)

\* the inner while loop of fix over the matches of suggestion.original in one
\* line; _isAlreadyWrapped receives the exec match, not the expression text
RECURSIVE DivisionFixLine(_, _, _, _, _, _, _)
DivisionFixLine(line, original, fixedCode, ruleConfig, matches, lastIndex, newLine) ==
    IF matches = <<>>
    THEN [threw |-> FALSE, line |-> newLine \o Substring(line, lastIndex, Len(line))]
    ELSE LET index   == Head(matches)
             wrapped == _isAlreadyWrapped(line, JSMatch(index, original), ruleConfig)
             after   == index + Len(original)
         IN  IF wrapped.threw THEN [threw |-> TRUE, line |-> line]
             ELSE IF ~wrapped.value
             THEN DivisionFixLine(line, original, fixedCode, ruleConfig, Tail(matches), after,
                                  newLine \o Substring(line, lastIndex, index) \o fixedCode)
             ELSE DivisionFixLine(line, original, fixedCode, ruleConfig, Tail(matches), after,
                                  newLine \o Substring(line, lastIndex, after))

RECURSIVE DivisionFixLines(_, _, _, _, _, _)
DivisionFixLines(lines, original, fixedCode, ruleConfig, i, done) ==
    IF i > Len(lines) THEN [threw |-> FALSE, lines |-> done]
    ELSE LET r == DivisionFixLine(lines[i], original, fixedCode, ruleConfig,
                                  LiteralMatches(lines[i], original, 0), 0, <<>>)
         IN  IF r.threw THEN [threw |-> TRUE, lines |-> done]
             ELSE DivisionFixLines(lines, original, fixedCode, ruleConfig, i + 1,
                                   Append(done, r.line))

\* ruleConfig.fixStyle || 'traditional'
DivisionFixStyle(ruleConfig) == OrDefault(ruleConfig, "fixStyle", "traditional")

DivisionFixedCode(suggestion, ruleConfig) ==
    LET template     == TemplateFor(ruleConfig, DivisionFixStyle(ruleConfig),
                                    DivisionDefaultTemplate)
        instanceNum  == IF Has(suggestion, "instanceNumber") /\ suggestion.instanceNumber # 0
                        THEN suggestion.instanceNumber ELSE 1
        defaultValue == <<"D","E","F","_","V","A","L","_","D","I","V","_","B","Y","_","Z",
        "E","R","O","_">> \o Decimal(instanceNum)
    IN  ReplaceFirst(ReplaceFirst(template, <<"{","e","x","p","r","e","s","s","i","o","n","}">>, suggestion.original),
                     <<"{","d","e","f","a","u","l","t","A","l","t","V","a","l","u","e",
        "}">>, defaultValue)

DivisionFix(text, suggestion, cfg) ==
    LET rc == ReadRuleConfig(cfg, "divisionOperations")
    IN  IF rc.threw THEN FixThrew(text)
        ELSE IF ~rc.defined \/ ~Truthy(rc.value, "autoFixEnabled") THEN FixReturns(text)
        ELSE IF ~Has(suggestion, "original") \/ suggestion.original = <<>>
        THEN FixReturns(text)
        ELSE LET r == DivisionFixLines(SplitLines(text), suggestion.original,
                                       DivisionFixedCode(suggestion, rc.value), rc.value,
                                       1, <<>>)
             IN  IF r.threw THEN FixThrew(text) ELSE FixReturns(JoinLines(r.lines))

\* the start indexes a global regex finds by repeated exec, given the set of
\* indexes where a match can start and where the match starting there ends:
\* the leftmost start at or after lastIndex, then on from the end of the match
RECURSIVE ExecAll(_, _, _)
ExecAll(starts, endOf, lastIndex) ==
    LET later == {i \in starts : i >= lastIndex}
    IN  IF later = {} THEN <<>>
        ELSE <<Min(later)>> \o ExecAll(starts, endOf, endOf[Min(later)])

\* \b at index i
WordBoundaryAt(s, i) ==
    LET before == i > 0 /\ IsWordChar(CharAt(s, i - 1))
        after  == i < Len(s) /\ IsWordChar(CharAt(s, i))
    IN  before # after

UpperSeq == <<"A","B","C","D","E","F","G","H","I","J","K","L","M",
              "N","O","P","Q","R","S","T","U","V","W","X","Y","Z">>
LowerSeq == <<"a","b","c","d","e","f","g","h","i","j","k","l","m",
              "n","o","p","q","r","s","t","u","v","w","x","y","z">>

\* one character of str.toLowerCase() / str.toUpperCase()
ToLowerChar(c) ==
    IF c \in Upper THEN LowerSeq[CHOOSE i \in 1..26 : UpperSeq[i] = c] ELSE c
ToUpperChar(c) ==
    IF c \in Lower THEN UpperSeq[CHOOSE i \in 1..26 : LowerSeq[i] = c] ELSE c
ToLower(s) == [k \in 1..Len(s) |-> ToLowerChar(s[k])]

(***************************************************************************)
(* Rule 2: queryFunctions                                                  *)
(***************************************************************************)
QueryDefaultMessage ==
    <<"C","o","n","s","i","d","e","r",SP,"s","e","t","t","i","n","g",
        SP,"{","f","u","n","c","t","i","o","n","}","(",")",SP,"a","s",
        SP,DQ,"O","n","e","-","T","i","m","e",DQ,SP,"f","o","r",SP,
        "b","e","t","t","e","r",SP,"p","e","r","f","o","r","m","a","n",
        "c","e",".">>

\* new RegExp('\\b(' + functionNames.join('|') + ')\\s*\\(', 'g') is a
\* SyntaxError when a name leaves a group open or closes one too many
RECURSIVE ParenBalance(_, _)
ParenBalance(s, depth) ==
    IF s = <<>> THEN depth
    ELSE IF depth < 0 THEN depth
    ELSE IF Head(s) = "(" THEN ParenBalance(Tail(s), depth + 1)
    ELSE IF Head(s) = ")" THEN ParenBalance(Tail(s), depth - 1)
    ELSE ParenBalance(Tail(s), depth)

QueryPatternCompiles(functionNames) ==
    \A n \in 1..Len(functionNames) : ParenBalance(functionNames[n], 0) = 0

\* the alternative the group captures at index i: the first name, in list
\* order, that is there and is followed by \s*\( ; 0 when none is
QueryAlternativeAt(masked, i, functionNames) ==
    LET ok == {n \in 1..Len(functionNames) :
                  /\ StartsWithAt(masked, i, functionNames[n])
                  /\ LET j == SkipSpaces(masked, i + Len(functionNames[n]))
                     IN  j < Len(masked) /\ CharAt(masked, j) = "("}
    IN  IF WordBoundaryAt(masked, i) /\ ok # {} THEN Min(ok) ELSE 0

QuerySuggestion(lineNumber, position, functionName, ruleConfig, instanceNumber) ==
    [line |-> lineNumber,
     column |-> position,
     message |-> replacePlaceholders(
                     OrDefault(ruleConfig, "suggestion", QueryDefaultMessage),
                     <<[key |-> <<"f","u","n","c","t","i","o","n">>, value |-> functionName]>>),
     severity |-> OrDefault(ruleConfig, "severity", "info"),
     rule |-> "queryFunctions",
     label |-> OrDefault(ruleConfig, "label", "queryFunctions"),
     fixable |-> FALSE,
     original |-> functionName \o <<"(">>,
     instanceNumber |-> instanceNumber]

RECURSIVE QueryScan(_, _, _, _, _, _, _)
QueryScan(line, lineNumber, masked, ruleConfig, positions, suggestions, counter) ==
    IF positions = <<>> THEN CheckReturns(suggestions, counter)
    ELSE LET position == Head(positions)
             names    == ruleConfig.functionNames
             name     == names[QueryAlternativeAt(masked, position, names)]
         IN  IF isInsideString(line, position)
             THEN QueryScan(line, lineNumber, masked, ruleConfig, Tail(positions),
                            suggestions, counter)
             ELSE QueryScan(line, lineNumber, masked, ruleConfig, Tail(positions),
                            Append(suggestions,
                                   QuerySuggestion(lineNumber, position, name, ruleConfig,
                                                   counter + 1)),
                            counter + 1)

QueryCheck(line, lineNumber, allLines, cfg, counter0) ==
    LET counter == ResetCounter(counter0, lineNumber)
        rc      == ReadRuleConfig(cfg, "queryFunctions")
        masked  == removeStringLiterals(line)
        names   == OrDefault(rc.value, "functionNames", <<>>)
        starts  == {i \in 0..(Len(masked) - 1) : QueryAlternativeAt(masked, i, names) # 0}
        endOf   == [i \in starts |->
                       SkipSpaces(masked,
                                  i + Len(names[QueryAlternativeAt(masked, i, names)])) + 1]
    IN  IF rc.threw THEN CheckThrew(counter)
        ELSE IF ~rc.defined \/ ~Truthy(rc.value, "enabled") THEN CheckReturns(<<>>, counter)
        ELSE IF Len(names) = 0 THEN CheckReturns(<<>>, counter)
        ELSE IF ~QueryPatternCompiles(names) THEN CheckThrew(counter)
        ELSE QueryScan(line, lineNumber, masked, rc.value, ExecAll(starts, endOf, 0),
                       <<>>, counter)

QueryFix(text, suggestion, cfg) == FixReturns(text)

(***************************************************************************)
(* Rule 3: uniqueKey                                                       *)
(***************************************************************************)
UniqueKeyDefaultMessage ==
    <<"E","n","s","u","r","e",SP,"A","t","t","r","i","b","u","t","e",
        SP,"w","i","t","h",SP,"u","n","i","q","u","e","K","e","y",SP,
        "E","x","p","r","e","s","s","i","o","n",SP,"i","s",SP,"s","e",
        "t",SP,"a","s",SP,DQ,"O","n","e","-","T","i","m","e",SP,"/",
        SP,"N","o","-","C","o","p","y",DQ,SP,"a","s",SP,"p","e","r",
        SP,"b","e","s","t",SP,"p","r","a","c","t","i","c","e","s",".">>

\* /uniqueKey\s*\(/gi, run on the line itself
UniqueKeyMatchAt(line, i) ==
    /\ i + 9 <= Len(line)
    /\ ToLower(SubSeq(line, i + 1, i + 9)) = <<"u","n","i","q","u","e","k","e","y">>
    /\ LET j == SkipSpaces(line, i + 9)
       IN  j < Len(line) /\ CharAt(line, j) = "("

UniqueKeySuggestion(lineNumber, position, ruleConfig, instanceNumber) ==
    [line |-> lineNumber,
     column |-> position,
     message |-> OrDefault(ruleConfig, "suggestion", UniqueKeyDefaultMessage),
     severity |-> OrDefault(ruleConfig, "severity", "warning"),
     rule |-> "uniqueKey",
     label |-> OrDefault(ruleConfig, "label", "uniqueKey"),
     fixable |-> FALSE,
     original |-> <<"u","n","i","q","u","e","K","e","y">>,
     instanceNumber |-> instanceNumber]

RECURSIVE UniqueKeyScan(_, _, _, _, _, _)
UniqueKeyScan(line, lineNumber, ruleConfig, positions, suggestions, counter) ==
    IF positions = <<>> THEN CheckReturns(suggestions, counter)
    ELSE IF isInsideString(line, Head(positions))
    THEN UniqueKeyScan(line, lineNumber, ruleConfig, Tail(positions), suggestions, counter)
    ELSE UniqueKeyScan(line, lineNumber, ruleConfig, Tail(positions),
                       Append(suggestions,
                              UniqueKeySuggestion(lineNumber, Head(positions), ruleConfig,
                                                  counter + 1)),
                       counter + 1)

UniqueKeyCheck(line, lineNumber, allLines, cfg, counter0) ==
    LET counter == ResetCounter(counter0, lineNumber)
        rc      == ReadRuleConfig(cfg, "uniqueKey")
        starts  == {i \in 0..(Len(line) - 1) : UniqueKeyMatchAt(line, i)}
        endOf   == [i \in starts |-> SkipSpaces(line, i + 9) + 1]
    IN  IF rc.threw THEN CheckThrew(counter)
        ELSE IF ~rc.defined \/ ~Truthy(rc.value, "enabled") THEN CheckReturns(<<>>, counter)
        ELSE UniqueKeyScan(line, lineNumber, rc.value, ExecAll(starts, endOf, 0),
                           <<>>, counter)

UniqueKeyFix(text, suggestion, cfg) == FixReturns(text)

\* str.split(sep) for a one-character separator
RECURSIVE SplitOn(_, _)
SplitOn(s, sep) ==
    LET i == IndexOf(s, <<sep>>)
    IN  IF i = -1 THEN <<s>>
        ELSE <<SubSeq(s, 1, i)>> \o SplitOn(SubSeq(s, i + 2, Len(s)), sep)

(***************************************************************************)
(* Rule 4: variableNaming                                                  *)
(***************************************************************************)
VariableNamingDefaultMessage ==
    <<"V","a","r","i","a","b","l","e",SP,DQ,"{","v","a","r","N","a",
        "m","e","}",DQ,SP,"s","h","o","u","l","d",SP,"u","s","e",SP,
        "c","a","m","e","l","C","a","s","e",SP,"n","a","m","i","n","g",
        SP,"c","o","n","v","e","n","t","i","o","n">>

\* /\b(?:(?:var|let|const)\s+)?([a-zA-Z_$][a-zA-Z0-9_$]*)\s*=/g at index i,
\* the name starting at index n: the name is the longest run of name
\* characters, then \s*, then the equals sign
VarNameThenEquals(masked, n) ==
    /\ n < Len(masked)
    /\ IsIdentStart(CharAt(masked, n))
    /\ LET e == SkipSpaces(masked, SkipIdent(masked, n))
       IN  e < Len(masked) /\ CharAt(masked, e) = "="

\* where the name of the match at index i starts: after a declaration keyword
\* and its spaces when that matches, else at i; -1 when nothing matches at i
VarNameStartAt(masked, i) ==
    LET keywords == {kw \in {<<"v","a","r">>, <<"l","e","t">>, <<"c","o","n","s","t">>} :
                        /\ StartsWithAt(masked, i, kw)
                        /\ SkipSpaces(masked, i + Len(kw)) > i + Len(kw)
                        /\ VarNameThenEquals(masked, SkipSpaces(masked, i + Len(kw)))}
    IN  IF ~WordBoundaryAt(masked, i) THEN -1
        ELSE IF keywords # {}
        THEN SkipSpaces(masked, i + Len(CHOOSE kw \in keywords : TRUE))
        ELSE IF VarNameThenEquals(masked, i) THEN i
        ELSE -1

RECURSIVE CamelCaseParts(_, _)
CamelCaseParts(parts, index) ==
    IF index > Len(parts) THEN <<>>
    ELSE LET part == parts[index]
             this == IF part = <<>> THEN <<>>
                     ELSE IF index = 1 THEN <<ToLowerChar(Head(part))>> \o Tail(part)
                     ELSE <<ToUpperChar(Head(part))>> \o ToLower(Tail(part))
         IN  this \o CamelCaseParts(parts, index + 1)

camelCaseName(varName) == CamelCaseParts(SplitOn(varName, "_"), 1)

VariableNamingSuggestion(lineNumber, position, varName, ruleConfig, instanceNumber) ==
    [line |-> lineNumber,
     column |-> position,
     message |-> replacePlaceholders(
                     OrDefault(ruleConfig, "suggestion", VariableNamingDefaultMessage),
                     <<[key |-> <<"v","a","r","N","a","m","e">>, value |-> varName],
                       [key |-> <<"c","o","r","r","e","c","t","e","d","N","a","m","e">>, value |-> camelCaseName(varName)]>>),
     severity |-> OrDefault(ruleConfig, "severity", "info"),
     rule |-> "variableNaming",
     label |-> OrDefault(ruleConfig, "label", "variableNaming"),
     fixable |-> TRUE,
     original |-> varName,
     instanceNumber |-> instanceNumber] @@ HasDifferentForms(ruleConfig)

RECURSIVE VariableNamingScan(_, _, _, _, _, _, _)
VariableNamingScan(line, lineNumber, masked, ruleConfig, positions, suggestions, counter) ==
    IF positions = <<>> THEN CheckReturns(suggestions, counter)
    ELSE LET position == Head(positions)
             n        == VarNameStartAt(masked, position)
             varName  == Substring(masked, n, SkipIdent(masked, n))
         IN  IF isInsideString(line, position)
             THEN VariableNamingScan(line, lineNumber, masked, ruleConfig, Tail(positions),
                                     suggestions, counter)
             ELSE IF IndexOf(varName, <<"_">>) # -1 \/ Head(varName) \in Upper
             THEN VariableNamingScan(line, lineNumber, masked, ruleConfig, Tail(positions),
                                     Append(suggestions,
                                            VariableNamingSuggestion(lineNumber, position,
                                                varName, ruleConfig, counter + 1)),
                                     counter + 1)
             ELSE VariableNamingScan(line, lineNumber, masked, ruleConfig, Tail(positions),
                                     suggestions, counter)

VariableNamingCheck(line, lineNumber, allLines, cfg, counter0) ==
    LET counter == ResetCounter(counter0, lineNumber)
        rc      == ReadRuleConfig(cfg, "variableNaming")
        masked  == removeStringLiterals(line)
        starts  == {i \in 0..(Len(masked) - 1) : VarNameStartAt(masked, i) # -1}
        endOf   == [i \in starts |->
                       SkipSpaces(masked, SkipIdent(masked, VarNameStartAt(masked, i))) + 1]
    IN  IF rc.threw THEN CheckThrew(counter)
        ELSE IF ~rc.defined \/ ~Truthy(rc.value, "enabled") THEN CheckReturns(<<>>, counter)
        ELSE VariableNamingScan(line, lineNumber, masked, rc.value,
                                ExecAll(starts, endOf, 0), <<>>, counter)

\* index i starts a whole-word occurrence of word: \bword\b
WordAt(s, i, word) ==
    /\ StartsWithAt(s, i, word)
    /\ WordBoundaryAt(s, i)
    /\ WordBoundaryAt(s, i + Len(word))

\* code.replace(/\bword\b/g, val)
RECURSIVE ReplaceAllWords(_, _, _, _)
ReplaceAllWords(s, word, val, from) ==
    LET hits == {i \in from..(Len(s) - Len(word)) : WordAt(s, i, word)}
    IN  IF hits = {} \/ Len(word) = 0 THEN Substring(s, from, Len(s))
        ELSE Substring(s, from, Min(hits)) \o ExpandReplacement(val, word)
             \o ReplaceAllWords(s, word, val, Min(hits) + Len(word))

\* check never stores a fixed name in its suggestions
VariableNamingFix(text, suggestion, cfg) ==
    LET rc == ReadRuleConfig(cfg, "variableNaming")
    IN  IF rc.threw THEN FixThrew(text)
        ELSE IF ~rc.defined \/ ~Truthy(rc.value, "autoFixEnabled") THEN FixReturns(text)
        ELSE IF ~Has(suggestion, "original") \/ suggestion.original = <<>>
                \/ ~Has(suggestion, "fixed") \/ suggestion.fixed = <<>>
        THEN FixReturns(text)
        ELSE FixReturns(ReplaceAllWords(text, suggestion.original, suggestion.fixed, 0))

(***************************************************************************)
(* Rule 5: nonOptimalNodeAccess                                            *)
(***************************************************************************)
NodeAccessDefaultMessage ==
    <<"{","l","i","b","r","a","r","y","}",SP,"n","o","d","e",SP,"r",
        "e","f","e","r","e","n","c","e",SP,"d","e","t","e","c","t","e",
        "d",".",SP,"C","o","n","s","i","d","e","r",SP,"s","t","o","r",
        "i","n","g",SP,"i","n",SP,"v","a","r","i","a","b","l","e",SP,
        "i","f",SP,"u","s","e","d",SP,"m","u","l","t","i","p","l","e",
        SP,"t","i","m","e","s",".">>

DefaultLibraries == <<<<"P","r","i","m","a","r","y">>, <<"S","e","c","o","n","d","a","r","y">>, <<"T","e","r","t","i","a","r","y">>>>

\* where a greedy \w+ that starts at index i ends
RECURSIVE SkipWord(_, _)
SkipWord(s, i) ==
    IF i < Len(s) /\ IsWordChar(CharAt(s, i)) THEN SkipWord(s, i + 1) ELSE i

\* (?!\s*:) at index j
NoColonAhead(s, j) ==
    LET k == SkipSpaces(s, j)
    IN  ~(k < Len(s) /\ CharAt(s, k) = ":")

\* where the match of library\.(\w+)(?!\s*:) that starts at index i ends, -1
\* when there is none: \w+ takes the whole word, and gives its last character
\* back when a colon follows the word
NodeAccessEndAt(s, i, library) ==
    LET w == i + Len(library) + 1
        e == SkipWord(s, w)
    IN  IF ~StartsWithAt(s, i, library \o <<".">>) \/ e = w THEN -1
        ELSE IF NoColonAhead(s, e) THEN e
        ELSE IF e - 1 > w THEN e - 1
        ELSE -1

RECURSIVE NodesOfLibrary(_, _, _)
NodesOfLibrary(s, library, positions) ==
    IF positions = <<>> THEN <<>>
    ELSE LET i == Head(positions)
             e == NodeAccessEndAt(s, i, library)
         IN  <<[library |-> library,
                name |-> Substring(s, i + Len(library) + 1, e),
                position |-> i,
                fullMatch |-> Substring(s, i, e)]>>
             \o NodesOfLibrary(s, library, Tail(positions))

RECURSIVE FindNodesFrom(_, _, _)
FindNodesFrom(s, libraries, n) ==
    IF n > Len(libraries) THEN <<>>
    ELSE LET library == libraries[n]
             starts  == {i \in 0..(Len(s) - 1) : NodeAccessEndAt(s, i, library) # -1}
             endOf   == [i \in starts |-> NodeAccessEndAt(s, i, library)]
         IN  NodesOfLibrary(s, library, ExecAll(starts, endOf, 0))
             \o FindNodesFrom(s, libraries, n + 1)

\* config.libraries || ['Primary', 'Secondary', 'Tertiary']
_findNodeAccess(line, cfg) ==
    FindNodesFrom(line, OrDefault(cfg, "libraries", DefaultLibraries), 1)

RECURSIVE NodeAccessSuggestions(_, _, _, _, _)
NodeAccessSuggestions(lineNumber, foundNodes, ruleConfig, suggestions, counter) ==
    IF foundNodes = <<>> THEN CheckReturns(suggestions, counter)
    ELSE LET node == Head(foundNodes)
         IN  NodeAccessSuggestions(lineNumber, Tail(foundNodes), ruleConfig,
                 Append(suggestions,
                        [line |-> lineNumber,
                         column |-> node.position,
                         message |-> replacePlaceholders(
                                         OrDefault(ruleConfig, "suggestion",
                                                   NodeAccessDefaultMessage),
                                         <<[key |-> <<"l","i","b","r","a","r","y">>, value |-> node.library],
                                           [key |-> <<"n","o","d","e">>, value |-> node.name]>>),
                         severity |-> OrDefault(ruleConfig, "severity", "info"),
                         rule |-> "nonOptimalNodeAccess",
                         label |-> OrDefault(ruleConfig, "label", "nonOptimalNodeAccess"),
                         fixable |-> FALSE,
                         original |-> node.fullMatch,
                         instanceNumber |-> counter + 1]),
                 counter + 1)

NodeAccessCheck(line, lineNumber, allLines, cfg, counter0) ==
    LET counter == ResetCounter(counter0, lineNumber)
        rc      == ReadRuleConfig(cfg, "nonOptimalNodeAccess")
        masked  == removeStringLiterals(line)
    IN  IF rc.threw THEN CheckThrew(counter)
        ELSE IF ~rc.defined \/ ~Truthy(rc.value, "enabled") THEN CheckReturns(<<>>, counter)
        ELSE NodeAccessSuggestions(lineNumber, _findNodeAccess(masked, cfg), rc.value,
                                   <<>>, counter)

NodeAccessFix(text, suggestion, cfg) == FixReturns(text)

\* code.replace(new RegExp(Regex.escape(lit), 'g'), rep)
ReplaceAllEscaped(s, lit, rep) == ReplaceAllLiteral(s, lit, ExpandReplacement(rep, lit))

(***************************************************************************)
(* Rule 6: nullAccessProtection                                            *)
(***************************************************************************)
NullAccessDefaultMessage ==
    <<"P","r","o","p","e","r","t","y",SP,"a","c","c","e","s","s",SP,
        "o","n",SP,DQ,"{","o","b","j","e","c","t","}",DQ,SP,"m","a",
        "y",SP,"f","a","i","l",SP,"i","f",SP,"n","u","l","l","/","u",
        "n","d","e","f","i","n","e","d",".",SP,"C","o","n","s","i","d",
        "e","r",SP,"u","s","i","n","g",SP,"o","p","t","i","o","n","a",
        "l",SP,"c","h","a","i","n","i","n","g",SP,"(","{","o","b","j",
        "e","c","t","}","?",".","{","p","r","o","p","e","r","t","y","}",
        ")",SP,"o","r",SP,"n","u","l","l",SP,"c","h","e","c","k",".">>

NullAccessDefaultTemplate == <<"i","f","N","u","l","l","(","{","e","x","p","r","e","s","s","i",
        "o","n","}",")">>

\* where the match of /([a-zA-Z_$][a-zA-Z0-9_$]*)\.([a-zA-Z_$][a-zA-Z0-9_$]*)/
\* that starts at index i ends, -1 when there is none
PropertyAccessEndAt(s, i) ==
    LET dot == SkipIdent(s, i)
    IN  IF /\ i < Len(s)
           /\ IsIdentStart(CharAt(s, i))
           /\ dot + 1 < Len(s)
           /\ CharAt(s, dot) = "."
           /\ IsIdentStart(CharAt(s, dot + 1))
        THEN SkipIdent(s, dot + 1)
        ELSE -1

\* \s*[!=]= at index i
ComparisonAt(s, i) ==
    LET m == SkipSpaces(s, i)
    IN  m + 1 < Len(s) /\ CharAt(s, m) \in {"!", "="} /\ CharAt(s, m + 1) = "="

\* the four patterns are built from varName unescaped: a dollar sign in the
\* name is an end-of-input assertion that the rest of each pattern contradicts
_hasNullCheck(line, varName) ==
    /\ IndexOf(varName, <<"$">>) = -1
    /\ \E i \in 0..Len(line) :
          \/ /\ StartsWithAt(line, i, <<"i","f">>)
             /\ LET j == SkipSpaces(line, i + 2)
                    k == SkipSpaces(line, j + 1)
                IN  /\ j < Len(line)
                    /\ CharAt(line, j) = "("
                    /\ StartsWithAt(line, k, varName)
                    /\ ComparisonAt(line, k + Len(varName))
          \/ /\ StartsWithAt(line, i, varName)
             /\ ComparisonAt(line, i + Len(varName))
             /\ LET n == SkipSpaces(line, SkipSpaces(line, i + Len(varName)) + 2)
                IN  StartsWithAt(line, n, <<"n","u","l","l">>) \/ StartsWithAt(line, n, <<"u","n","d","e","f","i","n","e","d">>)
          \/ /\ StartsWithAt(line, i, <<"t","y","p","e","o","f">>)
             /\ SkipSpaces(line, i + 6) > i + 6
             /\ StartsWithAt(line, SkipSpaces(line, i + 6), varName)
             /\ ComparisonAt(line, SkipSpaces(line, i + 6) + Len(varName))

NullAccessSuggestion(lineNumber, position, object, property, ruleConfig, instanceNumber) ==
    [line |-> lineNumber,
     column |-> position,
     message |-> replacePlaceholders(
                     OrDefault(ruleConfig, "suggestion", NullAccessDefaultMessage),
                     <<[key |-> <<"o","b","j","e","c","t">>, value |-> object],
                       [key |-> <<"p","r","o","p","e","r","t","y">>, value |-> property],
                       [key |-> <<"e","x","p","r","e","s","s","i","o","n">>, value |-> object \o <<".">> \o property]>>),
     severity |-> OrDefault(ruleConfig, "severity", "warning"),
     rule |-> "nullAccessProtection",
     label |-> OrDefault(ruleConfig, "label", "nullAccessProtection"),
     fixable |-> TRUE,
     original |-> object \o <<".">> \o property,
     instanceNumber |-> instanceNumber] @@ HasDifferentForms(ruleConfig)

RECURSIVE NullAccessScan(_, _, _, _, _, _, _)
NullAccessScan(line, lineNumber, masked, ruleConfig, positions, suggestions, counter) ==
    IF positions = <<>> THEN CheckReturns(suggestions, counter)
    ELSE LET position == Head(positions)
             dot      == SkipIdent(masked, position)
             matchEnd == PropertyAccessEndAt(masked, position)
             object   == Substring(masked, position, dot)
             property == Substring(masked, dot + 1, matchEnd)
             skip     == \/ isInsideString(line, position)
                         \/ (matchEnd < Len(masked) /\ CharAt(masked, matchEnd) = "(")
                         \/ IndexOf(masked, object \o <<"?", ".">>) # -1
                         \/ _hasNullCheck(masked, object)
         IN  IF skip
             THEN NullAccessScan(line, lineNumber, masked, ruleConfig, Tail(positions),
                                 suggestions, counter)
             ELSE NullAccessScan(line, lineNumber, masked, ruleConfig, Tail(positions),
                                 Append(suggestions,
                                        NullAccessSuggestion(lineNumber, position, object,
                                            property, ruleConfig, counter + 1)),
                                 counter + 1)

NullAccessCheck(line, lineNumber, allLines, cfg, counter0) ==
    LET counter == ResetCounter(counter0, lineNumber)
        rc      == ReadRuleConfig(cfg, "nullAccessProtection")
        masked  == removeStringLiterals(line)
        starts  == {i \in 0..(Len(masked) - 1) : PropertyAccessEndAt(masked, i) # -1}
        endOf   == [i \in starts |-> PropertyAccessEndAt(masked, i)]
    IN  IF rc.threw THEN CheckThrew(counter)
        ELSE IF ~rc.defined \/ ~Truthy(rc.value, "enabled") THEN CheckReturns(<<>>, counter)
        ELSE NullAccessScan(line, lineNumber, masked, rc.value, ExecAll(starts, endOf, 0),
                            <<>>, counter)

\* window.__forceFormSelection || ruleConfig.fixStyle || 'traditional'; an
\* unset global is the empty string here
NullAccessFixStyle(ruleConfig, forceFormSelection) ==
    IF forceFormSelection # "" THEN forceFormSelection
    ELSE OrDefault(ruleConfig, "fixStyle", "traditional")

NullAccessFixedCode(suggestion, ruleConfig, forceFormSelection) ==
    LET template    == TemplateFor(ruleConfig,
                                   NullAccessFixStyle(ruleConfig, forceFormSelection),
                                   NullAccessDefaultTemplate)
        parts       == SplitOn(suggestion.original, ".")
        instanceNum == IF Has(suggestion, "instanceNumber") /\ suggestion.instanceNumber # 0
                       THEN suggestion.instanceNumber ELSE 1
    IN  replacePlaceholders(template,
            <<[key |-> <<"o","b","j","e","c","t">>, value |-> parts[1]],
              [key |-> <<"p","r","o","p","e","r","t","y">>, value |-> parts[2]],
              [key |-> <<"e","x","p","r","e","s","s","i","o","n">>, value |-> suggestion.original],
              [key |-> <<"d","e","f","a","u","l","t","A","l","t","V","a","l","u","e">>,
               value |-> <<"D","E","F","_","V","A","L","_","N","U","L","L","_","S","A","F",
        "E","T","Y","_">> \o Decimal(instanceNum)]>>)

\* a faulty fix that does not look at autoFixEnabled
NullAccessFix_IgnoresAutoFix(text, suggestion, cfg, forceFormSelection) ==
    LET rc == ReadRuleConfig(cfg, "nullAccessProtection")
    IN  IF rc.threw THEN FixThrew(text)
        ELSE IF ~rc.defined THEN FixReturns(text)
        ELSE IF ~Has(suggestion, "original") \/ suggestion.original = <<>>
        THEN FixReturns(text)
        ELSE IF Len(SplitOn(suggestion.original, ".")) # 2 THEN FixReturns(text)
        ELSE FixReturns(ReplaceAllEscaped(text, suggestion.original,
                            NullAccessFixedCode(suggestion, rc.value, forceFormSelection)))

\* every occurrence of the expression in the whole text is replaced, wherever
\* it stands
NullAccessFix(text, suggestion, cfg, forceFormSelection) ==
    LET rc == ReadRuleConfig(cfg, "nullAccessProtection")
    IN  IF rc.threw THEN FixThrew(text)
        ELSE IF ~rc.defined \/ ~Truthy(rc.value, "autoFixEnabled") THEN FixReturns(text)
        ELSE IF ~Has(suggestion, "original") \/ suggestion.original = <<>>
        THEN FixReturns(text)
        ELSE IF Len(SplitOn(suggestion.original, ".")) # 2 THEN FixReturns(text)
        ELSE FixReturns(ReplaceAllEscaped(text, suggestion.original,
                            NullAccessFixedCode(suggestion, rc.value, forceFormSelection)))

(***************************************************************************)
(* Rule 7: mathOperationsParens                                            *)
(***************************************************************************)
MathDefaultMessage ==
    <<"C","o","m","p","l","e","x",SP,"m","a","t","h",SP,"e","x","p",
        "r","e","s","s","i","o","n",SP,"d","e","t","e","c","t","e","d",
        ".",SP,"C","o","n","s","i","d","e","r",SP,"a","d","d","i","n",
        "g",SP,"p","a","r","e","n","t","h","e","s","e","s",SP,"f","o",
        "r",SP,"c","l","a","r","i","t","y",".">>

\* where a name, \s*, one of the operators ops and \s* end when they start at
\* index i, -1 when they are not there
OperandThenOperator(s, i, ops) ==
    LET o == SkipSpaces(s, SkipIdent(s, i))
    IN  IF i < Len(s) /\ IsIdentStart(CharAt(s, i)) /\ o < Len(s) /\ CharAt(s, o) \in ops
        THEN SkipSpaces(s, o + 1)
        ELSE -1

\* where the match of name [+-] name [*/] name that starts at index i ends
MathEndAt(s, i) ==
    LET second == OperandThenOperator(s, i, {"+", "-"})
        third  == IF second = -1 THEN -1 ELSE OperandThenOperator(s, second, {"*", "/"})
    IN  IF third # -1 /\ third < Len(s) /\ IsIdentStart(CharAt(s, third))
        THEN SkipIdent(s, third)
        ELSE -1

_hasParentheses(line, startPos, length) ==
    \/ Substring(line, Max({0, startPos - 1}), startPos) = <<"(">>
    \/ Substring(line, startPos + length, startPos + length + 1) = <<")">>

MathSuggestion(lineNumber, position, original, ruleConfig, instanceNumber) ==
    [line |-> lineNumber,
     column |-> position,
     message |-> OrDefault(ruleConfig, "suggestion", MathDefaultMessage)
                 \o <<SP,"*","*">> \o original \o <<"*","*">>,
     severity |-> OrDefault(ruleConfig, "severity", "info"),
     rule |-> "mathOperationsParens",
     label |-> OrDefault(ruleConfig, "label", "mathOperationsParens"),
     fixable |-> Truthy(ruleConfig, "autoFixEnabled"),
     original |-> original,
     instanceNumber |-> instanceNumber]

RECURSIVE MathScan(_, _, _, _, _, _, _)
MathScan(line, lineNumber, masked, ruleConfig, positions, suggestions, counter) ==
    IF positions = <<>> THEN CheckReturns(suggestions, counter)
    ELSE LET position == Head(positions)
             matchEnd == MathEndAt(masked, position)
         IN  IF \/ isInsideString(line, position)
                \/ _hasParentheses(masked, position, matchEnd - position)
             THEN MathScan(line, lineNumber, masked, ruleConfig, Tail(positions),
                           suggestions, counter)
             ELSE MathScan(line, lineNumber, masked, ruleConfig, Tail(positions),
                           Append(suggestions,
                                  MathSuggestion(lineNumber, position,
                                      Substring(masked, position, matchEnd), ruleConfig,
                                      counter + 1)),
                           counter + 1)

MathCheck(line, lineNumber, allLines, cfg, counter0) ==
    LET counter == ResetCounter(counter0, lineNumber)
        rc      == ReadRuleConfig(cfg, "mathOperationsParens")
        masked  == removeStringLiterals(line)
        starts  == {i \in 0..(Len(masked) - 1) : MathEndAt(masked, i) # -1}
        endOf   == [i \in starts |-> MathEndAt(masked, i)]
    IN  IF rc.threw THEN CheckThrew(counter)
        ELSE IF ~rc.defined \/ ~Truthy(rc.value, "enabled") THEN CheckReturns(<<>>, counter)
        ELSE MathScan(line, lineNumber, masked, rc.value, ExecAll(starts, endOf, 0),
                      <<>>, counter)

\* check computes the parenthesised text but does not store it in the suggestion
MathFix(text, suggestion, cfg) ==
    LET rc == ReadRuleConfig(cfg, "mathOperationsParens")
    IN  IF rc.threw THEN FixThrew(text)
        ELSE IF ~rc.defined \/ ~Truthy(rc.value, "autoFixEnabled") THEN FixReturns(text)
        ELSE IF ~Has(suggestion, "original") \/ suggestion.original = <<>>
                \/ ~Has(suggestion, "fixed") \/ suggestion.fixed = <<>>
        THEN FixReturns(text)
        ELSE FixReturns(ReplaceAllEscaped(text, suggestion.original, suggestion.fixed))

(***************************************************************************)
(* Rule 8: extraneousBlocks                                                *)
(***************************************************************************)
BlockWrapperMessage == <<"R","e","m","o","v","e",SP,"u","n","n","e","c","e","s","s","a",
        "r","y",SP,"b","l","o","c","k","(",")",SP,"w","r","a","p","p",
        "e","r",SP,"f","o","r",SP,"s","i","n","g","l","e",SP,"s","t",
        "a","t","e","m","e","n","t",".">>
SingleStatementMessage ==
    <<"U","n","n","e","c","e","s","s","a","r","y",SP,"b","l","o","c",
        "k",SP,"d","e","t","e","c","t","e","d",".",SP,"S","i","n","g",
        "l","e",SP,"s","t","a","t","e","m","e","n","t",SP,"d","o","e",
        "s",SP,"n","o","t",SP,"r","e","q","u","i","r","e",SP,"b","r",
        "a","c","e","s",".">>
EmptyBlockMessage == <<"E","m","p","t","y",SP,"b","l","o","c","k",SP,"d","e","t","e",
        "c","t","e","d",".",SP,"C","o","n","s","i","d","e","r",SP,"r",
        "e","m","o","v","i","n","g",SP,"o","r",SP,"a","d","d","i","n",
        "g",SP,"i","m","p","l","e","m","e","n","t","a","t","i","o","n",
        ".">>

\* content.replace(/\/\*[\s\S]*?\*\//g, '')
RECURSIVE RemoveBlockComments(_)
RemoveBlockComments(s) ==
    LET open  == IndexOf(s, <<"/", "*">>)
        rest  == SubSeq(s, open + 3, Len(s))
        close == IndexOf(rest, <<"*", "/">>)
    IN  IF open = -1 THEN s
        ELSE IF close = -1
        THEN SubSeq(s, 1, open + 1) \o RemoveBlockComments(SubSeq(s, open + 2, Len(s)))
        ELSE SubSeq(s, 1, open) \o RemoveBlockComments(SubSeq(rest, close + 3, Len(rest)))

\* content.replace(/\/\/.*/g, '')
RECURSIVE RemoveLineComments(_)
RemoveLineComments(s) ==
    LET open == IndexOf(s, <<"/", "/">>)
        rest == SubSeq(s, open + 1, Len(s))
        nl   == IndexOf(rest, <<NL>>)
    IN  IF open = -1 THEN s
        ELSE IF nl = -1 THEN SubSeq(s, 1, open)
        ELSE SubSeq(s, 1, open) \o RemoveLineComments(SubSeq(rest, nl + 1, Len(rest)))

\* the loop of _countStatements over the trimmed content, from index i on;
\* only brackets and commas change its state, so it goes from one to the next
RECURSIVE CountCommas(_, _, _, _)
CountCommas(trimmed, i, depth, commaCount) ==
    LET marks == {k \in i..(Len(trimmed) - 1) :
                     CharAt(trimmed, k) \in {"(", "[", "{", ")", "]", "}", ","}}
    IN  IF marks = {} THEN commaCount
        ELSE LET k    == Min(marks)
                 char == CharAt(trimmed, k)
             IN  IF char \in {"(", "[", "{"}
                 THEN CountCommas(trimmed, k + 1, depth + 1, commaCount)
                 ELSE IF char \in {")", "]", "}"}
                 THEN CountCommas(trimmed, k + 1, depth - 1, commaCount)
                 ELSE IF depth = 0
                 THEN CountCommas(trimmed, k + 1, depth, commaCount + 1)
                 ELSE CountCommas(trimmed, k + 1, depth, commaCount)

\* a faulty count that takes every comma for a separator, nested or not
_countStatements_AllCommas(content) ==
    LET trimmed == Trim(RemoveLineComments(RemoveBlockComments(content)))
    IN  IF trimmed = <<>> THEN 0
        ELSE Cardinality({k \in 1..Len(trimmed) : trimmed[k] = ","}) + 1

_countStatements(content) ==
    LET trimmed == Trim(RemoveLineComments(RemoveBlockComments(content)))
    IN  IF trimmed = <<>> THEN 0 ELSE CountCommas(trimmed, 0, 0, 0) + 1

BlockSuggestion(lineNumber, column, message, severity, ruleConfig, instanceNumber) ==
    [line |-> lineNumber,
     column |-> column,
     message |-> OrDefault(ruleConfig, "suggestion", message),
     severity |-> OrDefault(ruleConfig, "severity", severity),
     rule |-> "extraneousBlocks",
     label |-> OrDefault(ruleConfig, "label", "extraneousBlocks"),
     fixable |-> TRUE,
     instanceNumber |-> instanceNumber] @@ HasDifferentForms(ruleConfig)

\* the two nested loops of _checkBlockFunction, at line index i and character
\* index j; found is 1 with the suggestion when the block closes over exactly
\* one statement.  Before the block is found only "block(" matters, after it
\* only parentheses do: the characters in between are passed over (and added
\* to blockContent) in one step.
RECURSIVE BlockWalk(_, _, _, _, _, _, _, _, _, _)
BlockWalk(startLine, allLines, ruleConfig, counter, i, j, foundBlock, blockStartCol, parenDepth, blockContent) ==
    IF i >= Len(allLines) THEN [found |-> 0, counter |-> counter]
    ELSE LET masked == removeStringLiterals(allLines[i + 1])
             rest   == Substring(masked, j, Len(masked))
             start  == IndexOf(rest, <<"b","l","o","c","k","(">>)
             parens == {k \in j..(Len(masked) - 1) : CharAt(masked, k) \in {"(", ")"}}
         IN  IF ~foundBlock /\ start # -1
             THEN BlockWalk(startLine, allLines, ruleConfig, counter, i, j + start + 6,
                            TRUE, j + start, 1, blockContent)
             ELSE IF ~foundBlock
             THEN BlockWalk(startLine, allLines, ruleConfig, counter, i + 1, 0,
                            foundBlock, blockStartCol, parenDepth, blockContent)
             ELSE IF parens = {}
             THEN IF parenDepth = 0 THEN [found |-> 0, counter |-> counter]
                  ELSE BlockWalk(startLine, allLines, ruleConfig, counter, i + 1, 0,
                                 foundBlock, blockStartCol, parenDepth,
                                 IF parenDepth > 0
                                 THEN blockContent \o rest \o <<NL>>
                                 ELSE blockContent \o rest)
             ELSE LET k       == Min(parens)
                      char    == CharAt(masked, k)
                      content == blockContent \o Substring(masked, j, k)
                  IN  IF char = ")" /\ parenDepth = 1
                      THEN IF _countStatements(content) = 1
                           THEN [found |-> 1, counter |-> counter + 1,
                                 suggestion |-> BlockSuggestion(startLine, blockStartCol,
                                                    BlockWrapperMessage, "info", ruleConfig,
                                                    counter + 1)]
                           ELSE [found |-> 0, counter |-> counter]
                      ELSE BlockWalk(startLine, allLines, ruleConfig, counter, i, k + 1,
                                     foundBlock, blockStartCol,
                                     IF char = "(" THEN parenDepth + 1 ELSE parenDepth - 1,
                                     Append(content, char))

_checkBlockFunction(startLine, allLines, ruleConfig, counter) ==
    BlockWalk(startLine, allLines, ruleConfig, counter, startLine - 1, 0, FALSE, -1, 0, <<>>)

\* allLines[index].trim() for a 0-based index inside the array
TrimmedLineAt(allLines, index) == Trim(allLines[index + 1])

ExtraneousBlocksCheck(line, lineNumber, allLines, cfg, counter0) ==
    LET counter     == ResetCounter(counter0, lineNumber)
        rc          == ReadRuleConfig(cfg, "extraneousBlocks")
        trimmedLine == Trim(removeStringLiterals(line))
        block       == IF IndexOf(trimmedLine, <<"b","l","o","c","k","(">>) # -1
                       THEN _checkBlockFunction(lineNumber, allLines, rc.value, counter)
                       ELSE [found |-> 0, counter |-> counter]
        first       == IF block.found = 1 THEN <<block.suggestion>> ELSE <<>>
        single      == /\ trimmedLine = <<"{">>
                       /\ lineNumber < Len(allLines) - 1
                       /\ LET nextLine      == TrimmedLineAt(allLines, lineNumber)
                              lineAfterNext == IF lineNumber < Len(allLines) - 2
                                               THEN TrimmedLineAt(allLines, lineNumber + 1)
                                               ELSE <<>>
                          IN  /\ nextLine # <<>>
                              /\ nextLine # <<"}">>
                              /\ lineAfterNext = <<"}">>
        second      == IF single
                       THEN <<BlockSuggestion(lineNumber, 0, SingleStatementMessage, "info",
                                              rc.value, block.counter + 1)>>
                       ELSE <<>>
        counter2    == block.counter + Len(second)
        empty       == \/ trimmedLine = <<"{", "}">>
                       \/ /\ trimmedLine = <<"{">>
                          /\ lineNumber < Len(allLines)
                          /\ TrimmedLineAt(allLines, lineNumber) = <<"}">>
        third       == IF empty
                       THEN <<BlockSuggestion(lineNumber, 0, EmptyBlockMessage, "warning",
                                              rc.value, counter2 + 1)>>
                       ELSE <<>>
    IN  IF rc.threw THEN CheckThrew(counter)
        ELSE IF ~rc.defined \/ ~Truthy(rc.value, "enabled") THEN CheckReturns(<<>>, counter)
        ELSE CheckReturns(first \o second \o third, counter2 + Len(third))

ExtraneousBlocksFix(text, suggestion, cfg) == FixReturns(text)

(***************************************************************************)
(* The engine: dslSuggestionsEngine.js                                     *)
(***************************************************************************)
\* window.DSL_RULES, in registration order
RuleNames ==
    <<"divisionOperations", "queryFunctions", "uniqueKey", "variableNaming",
      "nonOptimalNodeAccess", "nullAccessProtection", "mathOperationsParens",
      "extraneousBlocks">>

RuleSet == {RuleNames[i] : i \in 1..Len(RuleNames)}

ZeroCounters == [name \in RuleSet |-> 0]

\* rule.check(line, lineNumber, lines, context, config); analyzeDSL builds a
\* context that has no isInComment property
RuleCheck(name, line, lineNumber, allLines, cfg, counter) ==
    CASE name = "divisionOperations"   -> DivisionCheck(line, lineNumber, allLines, cfg, counter)
      [] name = "queryFunctions"       -> QueryCheck(line, lineNumber, allLines, cfg, counter)
      [] name = "uniqueKey"            -> UniqueKeyCheck(line, lineNumber, allLines, cfg, counter)
      [] name = "variableNaming"       -> VariableNamingCheck(line, lineNumber, allLines, cfg, counter)
      [] name = "nonOptimalNodeAccess" -> NodeAccessCheck(line, lineNumber, allLines, cfg, counter)
      [] name = "nullAccessProtection" -> NullAccessCheck(line, lineNumber, allLines, cfg, counter)
      [] name = "mathOperationsParens" -> MathCheck(line, lineNumber, allLines, cfg, counter)
      [] name = "extraneousBlocks"     -> ExtraneousBlocksCheck(line, lineNumber, allLines, cfg, counter)

\* rule.fix(code, suggestion, config); nullAccessProtection.fix also reads
\* window.__forceFormSelection
RuleFix(name, text, suggestion, cfg, forceFormSelection) ==
    CASE name = "divisionOperations"   -> DivisionFix(text, suggestion, cfg)
      [] name = "queryFunctions"       -> QueryFix(text, suggestion, cfg)
      [] name = "uniqueKey"            -> UniqueKeyFix(text, suggestion, cfg)
      [] name = "variableNaming"       -> VariableNamingFix(text, suggestion, cfg)
      [] name = "nonOptimalNodeAccess" -> NodeAccessFix(text, suggestion, cfg)
      [] name = "nullAccessProtection" -> NullAccessFix(text, suggestion, cfg, forceFormSelection)
      [] name = "mathOperationsParens" -> MathFix(text, suggestion, cfg)
      [] name = "extraneousBlocks"     -> ExtraneousBlocksFix(text, suggestion, cfg)

\* formUI.force is window.__forceFormSelection, formUI.current is
\* window.__currentFormSelection, formUI.radio the value of the checked radio
\* button; "" stands for unset or none checked
getCurrentFormSelection(ui) ==
    IF ui.force # "" THEN ui.force
    ELSE IF ui.current # "" THEN ui.current
    ELSE IF ui.radio # "" THEN ui.radio
    ELSE "traditional"

\* a faulty merge in which the defaults override the rule's own values
applyConfigDefaults_DefaultsWin(ruleConfig, defaults) == defaults @@ ruleConfig

\* the merge of applyConfigDefaults when both arguments are there: the
\* defaults are copied first, the rule's own values override them
applyConfigDefaults(ruleConfig, defaults) == ruleConfig @@ defaults

\* config.suggestionRules && config.suggestionRules[rule.name], then
\* applyConfigDefaults when the rule has an entry and config.defaults exists
EffectiveRuleConfig(cfg, name) ==
    IF ~Has(cfg, "suggestionRules") \/ ~Has(cfg.suggestionRules, name)
    THEN [defined |-> FALSE, value |-> EmptyObject]
    ELSE IF Has(cfg, "defaults")
    THEN [defined |-> TRUE,
          value |-> applyConfigDefaults(cfg.suggestionRules[name], cfg.defaults)]
    ELSE [defined |-> TRUE, value |-> cfg.suggestionRules[name]]

\* the inner loop of analyzeDSL: one rule over the lines from index lineNum
\* on; check receives config itself, not the merged rule config
RECURSIVE AnalyzeLines(_, _, _, _, _, _)
AnalyzeLines(name, lines, cfg, lineNum, counter, suggestions) ==
    IF lineNum >= Len(lines)
    THEN [threw |-> FALSE, suggestions |-> suggestions, counter |-> counter]
    ELSE LET Checked(r) ==
                 IF r.threw
                 THEN [threw |-> TRUE, suggestions |-> suggestions, counter |-> r.counter]
                 ELSE AnalyzeLines(name, lines, cfg, lineNum + 1, r.counter,
                                   suggestions \o r.suggestions)
         IN  Checked(RuleCheck(name, lines[lineNum + 1], lineNum + 1, lines, cfg, counter))

\* a faulty outer loop that puts a rule's suggestions before those of the
\* rules that ran earlier
RECURSIVE AnalyzeRules_LaterRulesFirst(_, _, _, _, _)
AnalyzeRules_LaterRulesFirst(lines, cfg, i, ruleCounters, suggestions) ==
    IF i > Len(RuleNames)
    THEN [threw |-> FALSE, suggestions |-> suggestions, counters |-> ruleCounters]
    ELSE LET name == RuleNames[i]
             Analyzed(r, next) ==
                 IF r.threw
                 THEN [threw |-> TRUE, suggestions |-> <<>>, counters |-> next]
                 ELSE AnalyzeRules_LaterRulesFirst(lines, cfg, i + 1, next,
                                                   r.suggestions \o suggestions)
             Counted(r) == Analyzed(r, [ruleCounters EXCEPT ![name] = r.counter])
         IN  Counted(AnalyzeLines(name, lines, cfg, 0, ruleCounters[name], <<>>))

\* the outer loop of analyzeDSL from rule index i on; an exception of a check
\* leaves the function
RECURSIVE AnalyzeRules(_, _, _, _, _)
AnalyzeRules(lines, cfg, i, ruleCounters, suggestions) ==
    IF i > Len(RuleNames)
    THEN [threw |-> FALSE, suggestions |-> suggestions, counters |-> ruleCounters]
    ELSE LET name == RuleNames[i]
             Analyzed(r, next) ==
                 IF r.threw
                 THEN [threw |-> TRUE, suggestions |-> <<>>, counters |-> next]
                 ELSE AnalyzeRules(lines, cfg, i + 1, next, suggestions \o r.suggestions)
             Counted(r) == Analyzed(r, [ruleCounters EXCEPT ![name] = r.counter])
         IN  Counted(AnalyzeLines(name, lines, cfg, 0, ruleCounters[name], <<>>))

\* suggestion.message.match(/\[([^\]]+)\]/): the text between the first
\* bracket that has something other than a closing bracket after it and the
\* next closing bracket; 'unknown' when there is none
MessageType(message) ==
    LET closes == {j \in 0..(Len(message) - 1) : CharAt(message, j) = "]"}
        closeAfter(i) == {j \in closes : j > i}
        opens == {i \in 0..(Len(message) - 1) :
                     /\ CharAt(message, i) = "["
                     /\ closeAfter(i) # {}
                     /\ Min(closeAfter(i)) > i + 1}
    IN  IF opens = {} THEN <<"u","n","k","n","o","w","n">>
        ELSE Substring(message, Min(opens) + 1, Min(closeAfter(Min(opens))))

\* a faulty summary that notes a severity once instead of counting it
Summary_NotesSeverities(suggestions) ==
    LET idx        == 1..Len(suggestions)
        types      == {MessageType(suggestions[j].message) : j \in idx}
        severities == {suggestions[j].severity : j \in idx}
    IN  [total |-> Len(suggestions),
         byType |-> [t \in types |->
                        Cardinality({j \in idx : MessageType(suggestions[j].message) = t})],
         bySeverity |-> [s \in severities |-> 1]]

Summary(suggestions) ==
    LET idx        == 1..Len(suggestions)
        types      == {MessageType(suggestions[j].message) : j \in idx}
        severities == {suggestions[j].severity : j \in idx}
    IN  [total |-> Len(suggestions),
         byType |-> [t \in types |->
                        Cardinality({j \in idx : MessageType(suggestions[j].message) = t})],
         bySeverity |-> [s \in severities |->
                            Cardinality({j \in idx : suggestions[j].severity = s})]]

\* analyzeDSL(code) with window.dslSuggestionsConfigData || {} as config
analyzeDSL(text, cfg, ruleCounters) ==
    LET Result(r) ==
            IF r.threw
            THEN [threw |-> TRUE, suggestions |-> <<>>, summary |-> Summary(<<>>),
                  counters |-> r.counters]
            ELSE [threw |-> FALSE, suggestions |-> r.suggestions,
                  summary |-> Summary(r.suggestions), counters |-> r.counters]
    IN  Result(AnalyzeRules(SplitLines(text), cfg, 1, ruleCounters, <<>>))

\* analysisResults.suggestions.filter(s => s.rule === rule.name)
RuleSuggestions(suggestions, name) ==
    SelectSeq(suggestions, LAMBDA s : s.rule = name)

\* a faulty copy that leaves the configured fixStyle in place
ModifiedRuleConfig_KeepsFixStyle(ruleConfig, formSelection) == ruleConfig

\* the copy of the merged rule config with fixStyle set to the form selection
ModifiedRuleConfig(ruleConfig, formSelection) ==
    [fixStyle |-> formSelection] @@ ruleConfig

\* the loop over the suggestions of one rule; applied lists the fixes that
\* changed the text
RECURSIVE ApplyFixesOf(_, _, _, _, _, _)
ApplyFixesOf(name, ruleSuggestions, fullConfig, forceFormSelection, modifiedCode, applied) ==
    IF ruleSuggestions = <<>>
    THEN [threw |-> FALSE, code |-> modifiedCode, applied |-> applied]
    ELSE LET suggestion == Head(ruleSuggestions)
             Fixed(fixed) ==
                 IF fixed.threw
                 THEN [threw |-> TRUE, code |-> modifiedCode, applied |-> applied]
                 ELSE ApplyFixesOf(name, Tail(ruleSuggestions), fullConfig,
                                   forceFormSelection, fixed.code,
                                   IF fixed.code # modifiedCode
                                   THEN Append(applied,
                                               [rule |-> name, suggestion |-> suggestion,
                                                before |-> modifiedCode,
                                                after |-> fixed.code])
                                   ELSE applied)
         IN  Fixed(RuleFix(name, modifiedCode, suggestion, fullConfig, forceFormSelection))

\* a variant in which every rule works on the text as it came, so that the
\* text of the last rule that changed anything is returned
RECURSIVE ApplyRules_EachRuleOnTheInput(_, _, _, _, _, _, _)
ApplyRules_EachRuleOnTheInput(cfg, ui, i, modifiedCode, ruleCounters, applied, skippedRules) ==
    IF i > Len(RuleNames)
    THEN [threw |-> FALSE, code |-> modifiedCode, counters |-> ruleCounters,
          applied |-> applied, skippedRules |-> skippedRules]
    ELSE LET name == RuleNames[i]
             Threw(analysis) ==
                 [threw |-> TRUE, code |-> modifiedCode, counters |-> analysis.counters,
                  applied |-> applied, skippedRules |-> skippedRules]
             Later(fixes, rest) ==
                 IF rest.threw \/ rest.code # modifiedCode THEN rest
                 ELSE [rest EXCEPT !.code = fixes.code]
             Fixed(analysis, fixes) ==
                 IF fixes.threw THEN Threw(analysis)
                 ELSE Later(fixes,
                            ApplyRules_EachRuleOnTheInput(cfg, ui, i + 1, modifiedCode,
                                                          analysis.counters, fixes.applied,
                                                          skippedRules))
             Analyzed(fullConfig, analysis) ==
                 IF analysis.threw THEN Threw(analysis)
                 ELSE Fixed(analysis,
                            ApplyFixesOf(name, RuleSuggestions(analysis.suggestions, name),
                                         fullConfig, ui.force, modifiedCode, applied))
             Configured(ruleConfig, formSelection) ==
                 IF \/ ~ruleConfig.defined
                    \/ ~Truthy(ruleConfig.value, "enabled")
                    \/ ~Truthy(ruleConfig.value, "autoFixEnabled")
                 THEN ApplyRules_EachRuleOnTheInput(cfg, ui, i + 1, modifiedCode,
                                                    ruleCounters, applied,
                                                    Append(skippedRules, name))
                 ELSE Analyzed([suggestionRules |->
                                   [n \in {name} |->
                                       ModifiedRuleConfig(ruleConfig.value, formSelection)]],
                               analyzeDSL(modifiedCode, cfg, ruleCounters))
         IN  Configured(EffectiveRuleConfig(cfg, name), getCurrentFormSelection(ui))

\* the loop over the rules inside the try block, from rule index i on
RECURSIVE ApplyRules(_, _, _, _, _, _, _)
ApplyRules(cfg, ui, i, modifiedCode, ruleCounters, applied, skippedRules) ==
    IF i > Len(RuleNames)
    THEN [threw |-> FALSE, code |-> modifiedCode, counters |-> ruleCounters,
          applied |-> applied, skippedRules |-> skippedRules]
    ELSE LET name == RuleNames[i]
             Threw(analysis) ==
                 [threw |-> TRUE, code |-> modifiedCode, counters |-> analysis.counters,
                  applied |-> applied, skippedRules |-> skippedRules]
             Fixed(analysis, fixes) ==
                 IF fixes.threw THEN Threw(analysis)
                 ELSE ApplyRules(cfg, ui, i + 1, fixes.code, analysis.counters,
                                 fixes.applied, skippedRules)
             Analyzed(fullConfig, analysis) ==
                 IF analysis.threw THEN Threw(analysis)
                 ELSE Fixed(analysis,
                            ApplyFixesOf(name, RuleSuggestions(analysis.suggestions, name),
                                         fullConfig, ui.force, modifiedCode, applied))
             Configured(ruleConfig, formSelection) ==
                 IF \/ ~ruleConfig.defined
                    \/ ~Truthy(ruleConfig.value, "enabled")
                    \/ ~Truthy(ruleConfig.value, "autoFixEnabled")
                 THEN ApplyRules(cfg, ui, i + 1, modifiedCode, ruleCounters, applied,
                                 Append(skippedRules, name))
                 ELSE Analyzed([suggestionRules |->
                                   [n \in {name} |->
                                       ModifiedRuleConfig(ruleConfig.value, formSelection)]],
                               analyzeDSL(modifiedCode, cfg, ruleCounters))
         IN  Configured(EffectiveRuleConfig(cfg, name), getCurrentFormSelection(ui))

\* a variant whose catch block returns nothing
applyCodeSuggestions_CatchReturnsNothing(text, cfg, ui, ruleCounters) ==
    LET Result(r) ==
            IF r.threw
            THEN [threw |-> TRUE, code |-> <<>>, counters |-> r.counters,
                  applied |-> <<>>, skippedRules |-> r.skippedRules]
            ELSE r
    IN  IF text = <<>> \/ Trim(text) = <<>>
        THEN [threw |-> FALSE, code |-> text, counters |-> ruleCounters,
              applied |-> <<>>, skippedRules |-> <<>>]
        ELSE Result(ApplyRules(cfg, ui, 1, text, ruleCounters, <<>>, <<>>))

\* applyCodeSuggestions(code): the text is returned as it came when it is
\* blank, and when anything inside the try block threw
applyCodeSuggestions(text, cfg, ui, ruleCounters) ==
    LET Result(r) ==
            IF r.threw
            THEN [threw |-> TRUE, code |-> text, counters |-> r.counters,
                  applied |-> <<>>, skippedRules |-> r.skippedRules]
            ELSE r
    IN  IF text = <<>> \/ Trim(text) = <<>>
        THEN [threw |-> FALSE, code |-> text, counters |-> ruleCounters,
              applied |-> <<>>, skippedRules |-> <<>>]
        ELSE Result(ApplyRules(cfg, ui, 1, text, ruleCounters, <<>>, <<>>))

(***************************************************************************)
(* Driver of the lexical utilities: a line is chosen, then masked and      *)
(* probed.                                                                 *)
(***************************************************************************)
LexAlphabet == {DQ, SQ, BS, "a", SP}

RECURSIVE SeqsUpTo(_, _)
SeqsUpTo(S, n) ==
    IF n = 0 THEN {<<>>}
    ELSE LET shorter == SeqsUpTo(S, n - 1)
         IN  shorter \cup {Append(s, c) : s \in {t \in shorter : Len(t) = n - 1}, c \in S}

LexLines == SeqsUpTo(LexAlphabet, MaxLexLen)

LexInit ==
    /\ lexLine \in LexLines
    /\ lexMasked = <<>>
    /\ lexMaskDone = FALSE
    /\ lexPos = -1
    /\ lexInside = FALSE
    /\ call = [fn |-> "none"]
    /\ config = EmptyObject
    /\ formUI = [force |-> "", current |-> "", radio |-> ""]
    /\ code = <<>>
    /\ counters = ZeroCounters
    /\ last = [op |-> "none"]
    /\ passes = 0
    /\ LoadIdle

MaskLine ==
    /\ ~lexMaskDone
    /\ lexMasked' = removeStringLiterals(lexLine)
    /\ lexMaskDone' = TRUE
    /\ UNCHANGED <<lexLine, lexPos, lexInside, call>>
    /\ UNCHANGED engineVars
    /\ UNCHANGED loadVars

ProbePosition ==
    /\ lexPos = -1
    /\ \E p \in 0..(Len(lexLine) - 1) :
          /\ lexPos' = p
          /\ lexInside' = isInsideString(lexLine, p)
    /\ UNCHANGED <<lexLine, lexMasked, lexMaskDone, call>>
    /\ UNCHANGED engineVars
    /\ UNCHANGED loadVars

LexNext == MaskLine \/ ProbePosition

SpecLex == LexInit /\ [][LexNext]_vars

(***************************************************************************)
(* Driver of the engine: a configuration is loaded and a form selected,    *)
(* then texts are typed into the input panel, analysed and fixed.          *)
(***************************************************************************)
DivisionTemplates ==
    [traditional |-> <<"i","f","N","a","N","(","{","e","x","p","r","e","s","s","i","o",
        "n","}",",",SP,"{","d","e","f","a","u","l","t","A","l","t","V",
        "a","l","u","e","}",")">>,
     method |-> <<"(","{","e","x","p","r","e","s","s","i","o","n","}",")",".","i",
        "f","N","a","N","(","{","d","e","f","a","u","l","t","A","l","t",
        "V","a","l","u","e","}",")">>]

NullAccessTemplates ==
    [traditional |-> <<"i","f","N","u","l","l","(","{","e","x","p","r","e","s","s","i",
        "o","n","}",",",SP,"{","d","e","f","a","u","l","t","A","l","t",
        "V","a","l","u","e","}",")">>,
     method |-> <<"(","{","e","x","p","r","e","s","s","i","o","n","}",")",".","i",
        "f","N","u","l","l","(","{","d","e","f","a","u","l","t","A","l",
        "t","V","a","l","u","e","}",")">>]

ConfigDefaults ==
    [enabled |-> TRUE, severity |-> "warning", autoFixEnabled |-> FALSE,
     fixStyle |-> "traditional"]

QueryFunctionNames ==
    <<<<"a","v","e","r","a","g","e","Q","u","e","r","y">>, <<"c","o","u","n","t","Q","u","e","r","y">>, <<"m","a","x","Q","u","e","r","y">>, <<"m","i","n","Q","u","e","r","y">>, <<"q","u","e","r","y">>, <<"s","u","m","Q","u","e","r","y">>,
      <<"w","e","i","g","h","t","e","d","A","v","e","r","a","g","e","Q",
        "u","e","r","y">>>>

\* dslSuggestionsConfigData as shipped, with the keys the engine and the
\* rules read
ShippedRules ==
    [divisionOperations |->
        [enabled |-> TRUE, label |-> "Div By 0",
         suggestion |-> <<"D","i","v","i","s","i","o","n",SP,"d","e","t","e","c","t","e",
        "d",SP,"i","n",SP,"e","x","p","r","e","s","s","i","o","n",".",
        SP,"W","r","a","p",SP,"e","n","t","i","r","e",SP,"f","o","r",
        "m","u","l","a",SP,"w","i","t","h",SP,"i","f","N","a","N","(",
        "*","*","{","e","x","p","r","e","s","s","i","o","n","}","*","*",
        ",",SP,"D","E","F","A","U","L","T","_","V","A","L","U","E",")",
        SP,"f","o","r",SP,"D","i","v","i","d","e","-","B","y","-","Z",
        "e","r","o",SP,"p","r","o","t","e","c","t","i","o","n",".">>,
         autoFixEnabled |-> FALSE, fixTemplates |-> DivisionTemplates,
         skipIfWrappedIn |-> <<<<"i","f","N","a","N">>, <<"c","a","t","c","h">>, <<"i","f","N","u","l","l">>, <<"s","a","f","e","D","i","v","i","d","e">>>>],
     queryFunctions |->
        [enabled |-> TRUE, label |-> "Query", severity |-> "info",
         suggestion |-> <<"E","n","s","u","r","e",SP,"A","t","t","r","i","b","u","t","e",
        "s",SP,"w","i","t","h",SP,"q","u","e","r","y",SP,"b","a","s",
        "e","d",SP,"E","x","p","r","e","s","s","i","o","n","s",SP,"a",
        "r","e",SP,"s","e","t",SP,"a","s",SP,DQ,"O","n","e","-","T",
        "i","m","e",SP,"/",SP,"N","o","-","C","o","p","y",DQ,",",SP,
        "a","s",SP,"p","e","r",SP,"b","e","s","t",SP,"p","r","a","c",
        "t","i","c","e","s",".">>,
         functionNames |-> QueryFunctionNames],
     uniqueKey |->
        [enabled |-> TRUE, label |-> "UniqueKey",
         suggestion |-> <<"E","n","s","u","r","e",SP,"u","n","i","q","u","e","K","e","y",
        "(",")",SP,"e","x","p","r","e","s","s","i","o","n",SP,"i","s",
        SP,"s","e","t",SP,"t","o",SP,DQ,"O","n","e","-","T","i","m",
        "e",DQ,SP,"a","n","d",SP,DQ,"N","o","-","C","o","p","y",DQ,
        SP,"f","l","a","g","s",".">>],
     variableNaming |->
        [enabled |-> TRUE, label |-> "Var Naming", severity |-> "info",
         suggestion |-> <<"V","a","r","i","a","b","l","e",SP,SQ,"{","v","a","r","N","a",
        "m","e","}",SQ,SP,"s","h","o","u","l","d",SP,"u","s","e",SP,
        "l","o","w","e","r","C","a","m","e","l","C","a","s","e",":",SP,
        SQ,"{","c","o","r","r","e","c","t","e","d","N","a","m","e","}",
        SQ,".">>,
         autoFixEnabled |-> FALSE,
         fixTemplates |-> [traditional |-> <<"{","c","o","r","r","e","c","t","e","d","N","a","m","e","}">>, method |-> <<"{","c","o","r","r","e","c","t","e","d","N","a","m","e","}">>]],
     nonOptimalNodeAccess |->
        [enabled |-> TRUE, label |-> "Node Perf", severity |-> "info",
         suggestion |-> <<"{","l","i","b","r","a","r","y","}",SP,"n","o","d","e",SP,"r",
        "e","f","e","r","e","n","c","e",SP,"d","e","t","e","c","t","e",
        "d",".",SP,"C","o","n","s","i","d","e","r",SP,"u","s","e",SP,
        "o","f",SP,"a",SP,"O","n","e","-","T","i","m","e",SP,"A","t",
        "t","r","i","b","u","t","e",SP,"E","x","p","r","e","s","s","i",
        "o","n",SP,"t","o",SP,"s","t","o","r","e",SP,"t","h","e",SP,
        "t","a","r","g","e","t",SP,"v","a","l","u","e",".">>],
     nullAccessProtection |->
        [enabled |-> TRUE, label |-> "Null Safety",
         suggestion |-> <<"A","d","d",SP,"n","u","l","l",SP,"p","r","o","t","e","c","t",
        "i","o","n",SP,"f","o","r",SP,"*","*","{","o","b","j","e","c",
        "t","}","*","*",SP,"w","h","e","n",SP,"a","c","c","e","s","s",
        "i","n","g",SP,".","{","p","r","o","p","e","r","t","y","}">>,
         autoFixEnabled |-> FALSE, fixStyle |-> "method",
         fixTemplates |-> NullAccessTemplates],
     mathOperationsParens |->
        [enabled |-> TRUE, label |-> "Math Clarity", severity |-> "info",
         suggestion |-> <<"C","o","n","s","i","d","e","r",SP,"u","s","e",SP,"o","f",SP,
        "p","a","r","e","n","s",SP,"(",")",SP,"t","o",SP,"g","r","o",
        "u","p",SP,"m","a","t","h",SP,"o","p","e","r","a","t","i","o",
        "n","s",SP,"f","o","r",SP,"c","l","a","r","i","t","y",".">>],
     extraneousBlocks |->
        [enabled |-> TRUE, label |-> "Extraneous Block", severity |-> "info",
         suggestion |-> <<"R","e","m","o","v","e",SP,"u","n","n","e","c","e","s","s","a",
        "r","y",SP,"b","l","o","c","k","(",")",SP,"w","r","a","p","p",
        "e","r",SP,"f","o","r",SP,"s","i","n","g","l","e",SP,"s","t",
        "a","t","e","m","e","n","t",".">>,
         autoFixEnabled |-> TRUE]]

ShippedConfig ==
    [defaults |-> ConfigDefaults,
     suggestionRules |-> ShippedRules,
     libraries |-> DefaultLibraries]

\* the shipped configuration with the auto-fix of the two fixing rules on
AutoFixConfig ==
    [ShippedConfig EXCEPT
        !.suggestionRules.divisionOperations.autoFixEnabled = TRUE,
        !.suggestionRules.nullAccessProtection.autoFixEnabled = TRUE]

\* division fixes in the method form and lists no wrapping functions, null
\* access is left to the defaults' traditional form; no other rule has an entry
NoSkipConfig ==
    [defaults |-> ConfigDefaults,
     suggestionRules |->
        [divisionOperations |->
            [enabled |-> TRUE, autoFixEnabled |-> TRUE, fixStyle |-> "method",
             fixTemplates |-> DivisionTemplates],
         nullAccessProtection |->
            [enabled |-> TRUE, autoFixEnabled |-> TRUE,
             fixTemplates |-> NullAccessTemplates]]]

\* the rule entries leave enabled, severity and autoFixEnabled to the defaults
InheritConfig ==
    [defaults |-> [enabled |-> TRUE, severity |-> "error", autoFixEnabled |-> TRUE,
                   fixStyle |-> "method"],
     suggestionRules |->
        [divisionOperations |-> [fixTemplates |-> DivisionTemplates],
         nullAccessProtection |-> [fixTemplates |-> NullAccessTemplates]]]

\* a function name that leaves the group of the query pattern open
BadQueryConfig ==
    [suggestionRules |->
        [divisionOperations |-> [enabled |-> TRUE],
         queryFunctions |-> [enabled |-> TRUE, functionNames |-> <<<<"q","u","e","r","y","(">>>>]]]

\* division is switched off with its auto-fix on, null access is switched on
\* with its auto-fix off
DisabledConfig ==
    [suggestionRules |->
        [divisionOperations |->
            [enabled |-> FALSE, autoFixEnabled |-> TRUE, fixTemplates |-> DivisionTemplates],
         nullAccessProtection |->
            [enabled |-> TRUE, autoFixEnabled |-> FALSE,
             fixTemplates |-> NullAccessTemplates]]]

\* division is fixed automatically, null access is only reported
PartialConfig ==
    [suggestionRules |->
        [divisionOperations |->
            [enabled |-> TRUE, autoFixEnabled |-> TRUE, fixTemplates |-> DivisionTemplates],
         nullAccessProtection |->
            [enabled |-> TRUE, autoFixEnabled |-> FALSE,
             fixTemplates |-> NullAccessTemplates]]]

\* window.dslSuggestionsConfigData is undefined: analyzeDSL and
\* applyCodeSuggestions go on with {}
MissingConfig == EmptyObject

\* the lines documents are made of: "x = a/b", which only divisionOperations
\* reports, and "T_v = block(query(c.d)) + m - p * uniqueKey(Primary.n())",
\* which each of the other seven rules reports
DivisionLine == <<"x",SP,"=",SP,"a","/","b">>
MixedLine ==
    <<"T","_","v",SP,"=",SP,"b","l","o","c","k","(","q","u","e","r","y","(","c",
      ".","d",")",")",SP,"+",SP,"m",SP,"-",SP,"p",SP,"*",SP,"u","n","i","q",
      "u","e","K","e","y","(","P","r","i","m","a","r","y",".","n","(",")",")">>
DocLines == {DivisionLine, MixedLine}

MaxLines == 3
MaxPasses == 2

Docs == {JoinLines(ls) : ls \in SeqsUpTo(DocLines, MaxLines) \ {<<>>}}

NoSelection == [force |-> "", current |-> "", radio |-> ""]

\* the app sets window.__forceFormSelection around its applyCodeSuggestions
\* call; other pages leave the marker or the radio buttons to decide
ForcedMethod  == [force |-> "method", current |-> "", radio |-> ""]
CurrentMethod == [force |-> "", current |-> "method", radio |-> "traditional"]
RadioMethod   == [force |-> "", current |-> "", radio |-> "method"]

\* the configuration that was loaded and the form selection in effect
Scenarios ==
    {[config |-> ShippedConfig,  ui |-> NoSelection],
     [config |-> AutoFixConfig,  ui |-> ForcedMethod],
     [config |-> NoSkipConfig,   ui |-> NoSelection],
     [config |-> NoSkipConfig,   ui |-> CurrentMethod],
     [config |-> InheritConfig,  ui |-> RadioMethod],
     [config |-> BadQueryConfig, ui |-> NoSelection],
     [config |-> DisabledConfig, ui |-> NoSelection],
     [config |-> PartialConfig,  ui |-> NoSelection],
     [config |-> MissingConfig,  ui |-> NoSelection]}

NoCall == [op |-> "none"]

LexIdle ==
    /\ lexLine = <<>>
    /\ lexMasked = <<>>
    /\ lexMaskDone = FALSE
    /\ lexPos = -1
    /\ lexInside = FALSE
    /\ call = [fn |-> "none"]

Init ==
    /\ LexIdle
    /\ \E sc \in Scenarios : config = sc.config /\ formUI = sc.ui
    /\ code = <<>>
    /\ counters = ZeroCounters
    /\ last = NoCall
    /\ passes = 0
    /\ LoadIdle

\* the user replaces the text of the input panel
LoadCode ==
    /\ \E doc \in Docs : code' = doc
    /\ last' = NoCall
    /\ passes' = 0
    /\ UNCHANGED <<config, formUI, counters>>
    /\ UNCHANGED lexVars
    /\ UNCHANGED loadVars

\* analyzeDSL(code)
Analyze ==
    /\ code # <<>>
    /\ last.op # "analyze"
    /\ \E r \in {analyzeDSL(code, config, counters)} :
           /\ last' = [op |-> "analyze", input |-> code, countersBefore |-> counters,
                       threw |-> r.threw, suggestions |-> r.suggestions,
                       summary |-> r.summary]
           /\ counters' = r.counters
    /\ UNCHANGED <<config, formUI, code, passes>>
    /\ UNCHANGED lexVars
    /\ UNCHANGED loadVars

\* applyCodeSuggestions(code), the result replacing the text
ApplyFixes ==
    /\ code # <<>>
    /\ passes < MaxPasses
    /\ \E r \in {applyCodeSuggestions(code, config, formUI, counters)} :
           /\ last' = [op |-> "fix", input |-> code, countersBefore |-> counters,
                       form |-> getCurrentFormSelection(formUI),
                       threw |-> r.threw, output |-> r.code, applied |-> r.applied,
                       skippedRules |-> r.skippedRules]
           /\ code' = r.code
           /\ counters' = r.counters
    /\ passes' = passes + 1
    /\ UNCHANGED <<config, formUI>>
    /\ UNCHANGED lexVars
    /\ UNCHANGED loadVars

Next == LoadCode \/ Analyze \/ ApplyFixes

Spec == Init /\ [][Next]_vars

(***************************************************************************)
(* Properties of the engine                                                *)
(***************************************************************************)
\* the rule has an entry whose merge with the defaults is enabled and has
\* autoFixEnabled
Qualifies(cfg, name) ==
    LET eff == EffectiveRuleConfig(cfg, name)
    IN  /\ eff.defined
        /\ Truthy(eff.value, "enabled")
        /\ Truthy(eff.value, "autoFixEnabled")

\* the configuration with every rule entry replaced by its merge with the
\* defaults
EffectiveConfig(cfg) ==
    IF ~Has(cfg, "suggestionRules") THEN cfg
    ELSE [k \in DOMAIN cfg |->
             IF k = "suggestionRules"
             THEN [n \in DOMAIN cfg.suggestionRules |-> EffectiveRuleConfig(cfg, n).value]
             ELSE cfg[k]]

\* what one rule reports for the text when it runs on its own
RuleAlone(name, text, cfg) ==
    AnalyzeLines(name, SplitLines(text), cfg, 0, 0, <<>>)

\* the fix template of the form, filled in for the suggestion
RenderedInForm(cfg, name, suggestion, form) ==
    LET prefix == IF name = "divisionOperations"
                  THEN <<"D","E","F","_","V","A","L","_","D","I","V","_","B","Y","_","Z","E","R","O","_">>
                  ELSE <<"D","E","F","_","V","A","L","_","N","U","L","L","_","S","A","F","E","T","Y","_">>
    IN  replacePlaceholders(
            EffectiveRuleConfig(cfg, name).value.fixTemplates[form],
            <<[key |-> <<"e","x","p","r","e","s","s","i","o","n">>, value |-> suggestion.original],
              [key |-> <<"d","e","f","a","u","l","t","A","l","t","V","a","l","u","e">>,
               value |-> prefix \o Decimal(suggestion.instanceNumber)]>>)

\* C1: applyFixes is idempotent: run on its own output, under the same
\* configuration and form selection, applyCodeSuggestions changes nothing.
C1_ApplyFixesIdempotent ==
    (last.op = "fix" /\ passes >= 2) => last.output = last.input

\* C2: analyze and applyFixes are deterministic across calls: whatever calls
\* came before, a call returns what it returns as the first call on the same
\* text, configuration and form selection: the same suggestions in the same
\* order with the same fields and instance numbers, or the same rewritten text.
C2_SameAsFirstCall ==
    /\ last.op = "analyze" =>
           LET first == analyzeDSL(last.input, config, ZeroCounters)
           IN  /\ last.threw = first.threw
               /\ last.suggestions = first.suggestions
               /\ last.summary = first.summary
    /\ last.op = "fix" =>
           LET first == applyCodeSuggestions(last.input, config, formUI, ZeroCounters)
           IN  /\ last.threw = first.threw
               /\ last.output = first.code
               /\ last.applied = first.applied

\* an analysis of one division line, made after an analysis that had left the
\* division counter at 3, numbers its suggestion 1
C2_Witness ==
    /\ last.op = "analyze"
    /\ last.countersBefore["divisionOperations"] = 3
    /\ last.input = DivisionLine
    /\ Len(last.suggestions) = 1
    /\ last.suggestions[1].instanceNumber = 1

\* C3: within one analysis the suggestions of one rule carry the instance
\* numbers 1, 2, ..., k in the order they are emitted, which is line order.
C3_InstanceNumbersRunFromOne ==
    (last.op = "analyze" /\ ~last.threw) =>
        \A name \in RuleSet :
            LET own == RuleSuggestions(last.suggestions, name)
            IN  /\ \A k \in 1..Len(own) : own[k].instanceNumber = k
                /\ \A k \in 1..(Len(own) - 1) : own[k].line <= own[k + 1].line

\* three unwrapped divisions on three lines are numbered 1, 2, 3
C3_Witness ==
    /\ last.op = "analyze"
    /\ last.input = JoinLines(<<DivisionLine, DivisionLine, DivisionLine>>)
    /\ LET own == RuleSuggestions(last.suggestions, "divisionOperations")
       IN  /\ Len(own) = 3
           /\ \A k \in 1..3 : own[k].line = k /\ own[k].instanceNumber = k

\* C4: during an analysis every check is driven by the rule's entry merged
\* with the defaults: the analysis returns what it returns when every entry
\* of the configuration is written out in full.
C4_ChecksSeeEffectiveConfig ==
    last.op = "analyze" =>
        LET merged == analyzeDSL(last.input, EffectiveConfig(config), last.countersBefore)
        IN  /\ last.threw = merged.threw
            /\ last.suggestions = merged.suggestions

\* C5: rules are isolated: when the check of some rule throws, the analysis
\* does not abort, and it returns the suggestions of every rule whose own
\* check does not throw.
C5_RuleIsolation ==
    last.op = "analyze" =>
        \A name \in RuleSet :
            LET alone == RuleAlone(name, last.input, config)
            IN  ~alone.threw =>
                    /\ ~last.threw
                    /\ RuleSuggestions(last.suggestions, name) = alone.suggestions

\* C6: a rule without configuration is a disabled rule: when the rule has no
\* entry, or the configuration is missing altogether, its check reports
\* nothing and does not throw, and applyFixes returns its input.
C6_AbsentConfigMeansDisabled ==
    /\ last.op = "analyze" =>
           \A name \in RuleSet :
               ~EffectiveRuleConfig(config, name).defined =>
                   LET alone == RuleAlone(name, last.input, config)
                   IN  ~alone.threw /\ alone.suggestions = <<>>
    /\ last.op = "fix" =>
           ((\A name \in RuleSet : ~EffectiveRuleConfig(config, name).defined) =>
                (~last.threw /\ last.output = last.input))

\* C7: a rule that is disabled or has no auto-fix never changes the text:
\* applyFixes applies fixes of qualifying rules only and returns its input
\* when no rule qualifies, and the fix of a rule without auto-fix returns its
\* input for every suggestion of the rule.
C7_OnlyAutoFixRulesChangeCode ==
    last.op = "fix" =>
        /\ \A k \in 1..Len(last.applied) : Qualifies(config, last.applied[k].rule)
        /\ (\A name \in RuleSet : ~Qualifies(config, name)) => last.output = last.input
        /\ \A name \in RuleSet :
               LET eff   == EffectiveRuleConfig(config, name)
                   own   == [suggestionRules |-> [n \in {name} |-> eff.value]]
                   found == RuleSuggestions(
                                analyzeDSL(last.input, config, ZeroCounters).suggestions,
                                name)
               IN  (eff.defined /\ ~Qualifies(config, name)) =>
                       \A k \in 1..Len(found) :
                           RuleFix(name, last.input, found[k], own, formUI.force).code
                               = last.input

\* with division fixed automatically and null access only reported, a pass
\* over a text holding both wraps the division and leaves the property access
C7_Witness ==
    /\ last.op = "fix"
    /\ config = PartialConfig
    /\ last.input = JoinLines(<<DivisionLine, MixedLine>>)
    /\ last.output =
           JoinLines(<<<<"x",SP,"=",SP,"i","f","N","a","N","(","a","/","b",",",SP,"D","E","F","_","V","A","L","_","D","I","V","_","B","Y","_","Z","E","R","O","_","1",")">>, MixedLine>>)
    /\ "nullAccessProtection" \in {last.skippedRules[k] : k \in 1..Len(last.skippedRules)}

\* C8: the selected form wins: every fix applyFixes applies puts the fix
\* template of the form selection into the text, whatever fixStyle the
\* configuration or its defaults name.
C8_SelectedFormWins ==
    last.op = "fix" =>
        \A k \in 1..Len(last.applied) :
            LET e == last.applied[k]
            IN  /\ e.rule \in {"divisionOperations", "nullAccessProtection"}
                /\ IndexOf(e.after,
                           RenderedInForm(config, e.rule, e.suggestion, last.form)) # -1

\* the division entry names fixStyle "method", nothing is selected, and the
\* division is wrapped in the traditional form
C8_Witness ==
    /\ last.op = "fix"
    /\ config = NoSkipConfig
    /\ last.form = "traditional"
    /\ last.input = DivisionLine
    /\ last.output = <<"x",SP,"=",SP,"i","f","N","a","N","(","a","/","b",",",SP,"D","E","F","_","V","A","L","_","D","I","V","_","B","Y","_","Z","E","R","O","_","1",")">>
    /\ Len(last.applied) = 1

(***************************************************************************)
(* Literal spans, stated independently of the scanners: the first          *)
(* unescaped quote at or after `from` opens a literal, which runs to the   *)
(* next unescaped quote of the same kind (or to the end of the line).      *)
(***************************************************************************)
UnescapedQuoteAt(line, i) ==
    /\ CharAt(line, i) \in {DQ, SQ}
    /\ (i = 0 \/ CharAt(line, i - 1) # BS)

RECURSIVE InLiteralFrom(_, _, _)
InLiteralFrom(line, p, from) ==
    LET opens == {q \in from..(Len(line) - 1) : UnescapedQuoteAt(line, q)}
    IN  IF opens = {} THEN FALSE
        ELSE LET q == CHOOSE x \in opens : \A y \in opens : x <= y
                 closes == {r \in (q + 1)..(Len(line) - 1) :
                               UnescapedQuoteAt(line, r) /\ CharAt(line, r) = CharAt(line, q)}
             IN  IF p < q THEN FALSE
                 ELSE IF closes = {} THEN TRUE
                 ELSE LET r == CHOOSE x \in closes : \A y \in closes : x <= y
                      IN  IF p <= r THEN TRUE ELSE InLiteralFrom(line, p, r + 1)

InLiteral(line, p) == InLiteralFrom(line, p, 0)

\* C10: masking preserves positions: the masked line has the length of the
\* line, every character of a quoted literal (both delimiters included) is a
\* space, and every character outside a literal is unchanged.
C10_MaskPreservesPositions ==
    lexMaskDone =>
        /\ Len(lexMasked) = Len(lexLine)
        /\ \A p \in 0..(Len(lexLine) - 1) :
              IF InLiteral(lexLine, p)
              THEN CharAt(lexMasked, p) = SP
              ELSE CharAt(lexMasked, p) = CharAt(lexLine, p)

\* a line with a terminated literal holding content, and text outside it, was masked
C10_Witness ==
    /\ lexMaskDone
    /\ Len(lexLine) = 4
    /\ CharAt(lexLine, 0) = "a"
    /\ CharAt(lexLine, 1) = DQ
    /\ CharAt(lexLine, 2) = "a"
    /\ CharAt(lexLine, 3) = DQ
    /\ lexMasked = <<"a", SP, SP, SP>>

\* C9: isInsideString(L, p) is true exactly when position p is masked by
\* removeStringLiterals(L), i.e. p lies within a quoted literal, delimiters
\* included.
C9_InsideAgreesWithMask ==
    (lexMaskDone /\ lexPos >= 0) =>
        (lexInside <=> (CharAt(lexMasked, lexPos) = SP /\ InLiteral(lexLine, lexPos)))

(***************************************************************************)
(* Direct calls of the helper functions: applyConfigDefaults with a rule   *)
(* entry and a defaults object, replacePlaceholders with a template and    *)
(* its values, and the template instantiation of divisionOperations.fix.   *)
(***************************************************************************)
NoHelperCall == [fn |-> "none"]

\* the objects applyConfigDefaults is handed: any of enabled, severity and
\* the nested fixTemplates, each absent or with one of two values
MergeObjects ==
    {e @@ s @@ t :
        e \in {EmptyObject, [enabled |-> TRUE], [enabled |-> FALSE]},
        s \in {EmptyObject, [severity |-> "warning"], [severity |-> "error"]},
        t \in {EmptyObject, [fixTemplates |-> DivisionTemplates],
               [fixTemplates |-> [traditional |-> <<"p","r","o","t","e","c","t","(","{","e","x","p","r","e","s","s","i","o","n","}",
        ",",SP,"{","d","e","f","a","u","l","t","A","l","t","V","a","l","u","e","}",
        ")">>]]}}

\* templates with one or two occurrences of a placeholder
PlaceholderTemplates ==
    {<<"p","r","o","t","e","c","t","(","{","e","x","p","r","e","s","s","i","o","n","}",
        ",",SP,"{","d","e","f","a","u","l","t","A","l","t","V","a","l","u","e","}",
        ")">>,
     <<"(","{","e","x","p","r","e","s","s","i","o","n","}",")",".","p","r","o","t","e",
        "c","t","(","{","d","e","f","a","u","l","t","A","l","t","V","a","l","u","e",
        "}",")">>,
     <<"{","e","x","p","r","e","s","s","i","o","n","}",SP,"+",SP,"{","e","x","p","r","e",
        "s","s","i","o","n","}">>}

\* expressions: plain, with regex metacharacters, with the replacement
\* sequences $$ and $&
PlaceholderValues == {<<"t","o","t","a","l",SP,"/",SP,"c","o","u","n","t">>, <<"a",".","b","*","(","c","+","d",")",SP,"/",SP,"e","[","0","]">>, <<"a","$","$",SP,"/",SP,"b">>, <<"$","&",SP,"/",SP,"x">>}

InstanceNumbers == {1, 2}

UtilInit ==
    /\ lexLine = <<>>
    /\ lexMasked = <<>>
    /\ lexMaskDone = FALSE
    /\ lexPos = -1
    /\ lexInside = FALSE
    /\ call = NoHelperCall
    /\ config = EmptyObject
    /\ formUI = [force |-> "", current |-> "", radio |-> ""]
    /\ code = <<>>
    /\ counters = ZeroCounters
    /\ last = [op |-> "none"]
    /\ passes = 0
    /\ LoadIdle

\* applyConfigDefaults(ruleConfig, defaults)
Resolve ==
    /\ call = NoHelperCall
    /\ \E ruleConfig \in MergeObjects, defaults \in MergeObjects :
          call' = [fn |-> "applyConfigDefaults", ruleConfig |-> ruleConfig,
                   defaults |-> defaults,
                   result |-> applyConfigDefaults(ruleConfig, defaults)]
    /\ UNCHANGED <<lexLine, lexMasked, lexMaskDone, lexPos, lexInside>>
    /\ UNCHANGED engineVars
    /\ UNCHANGED loadVars

\* replacePlaceholders(template, {expression: e, defaultAltValue: 'DEFAULT_' + n})
Substitute ==
    /\ call = NoHelperCall
    /\ \E template \in PlaceholderTemplates, e \in PlaceholderValues, n \in InstanceNumbers :
          call' = [fn |-> "replacePlaceholders", template |-> template,
                   expression |-> e, defaultAltValue |-> <<"D","E","F","A","U","L","T","_">> \o Decimal(n),
                   result |-> replacePlaceholders(template,
                       <<[key |-> <<"e","x","p","r","e","s","s","i","o","n">>, value |-> e],
                         [key |-> <<"d","e","f","a","u","l","t","A","l","t","V","a","l","u","e">>, value |-> <<"D","E","F","A","U","L","T","_">> \o Decimal(n)]>>)]
    /\ UNCHANGED <<lexLine, lexMasked, lexMaskDone, lexPos, lexInside>>
    /\ UNCHANGED engineVars
    /\ UNCHANGED loadVars

\* the fixedCode of divisionOperations.fix for a suggestion with original e
\* and instanceNumber n under a rule entry with the template
Instantiate ==
    /\ call = NoHelperCall
    /\ \E template \in PlaceholderTemplates, e \in PlaceholderValues, n \in InstanceNumbers :
          call' = [fn |-> "fixedCode", template |-> template,
                   expression |-> e, defaultAltValue |-> <<"D","E","F","_","V","A","L","_","D","I","V","_","B","Y","_","Z","E","R","O","_">> \o Decimal(n),
                   result |-> DivisionFixedCode(
                       [original |-> e, instanceNumber |-> n],
                       [fixTemplates |-> [traditional |-> template]])]
    /\ UNCHANGED <<lexLine, lexMasked, lexMaskDone, lexPos, lexInside>>
    /\ UNCHANGED engineVars
    /\ UNCHANGED loadVars

\* the lines _extractExpression is handed: every text of up to MaxExprLen
\* characters over operands, blanks, the division operator and the delimiters
MaxExprLen == 5
ExprChars == {"a", SP, "/", "=", ",", "(", ")"}
ExprLines == SeqsUpTo(ExprChars, MaxExprLen)

\* _extractExpression(line, divPosition) for a division operator of the line
Extract ==
    /\ call = NoHelperCall
    /\ \E line \in ExprLines :
          \E divPosition \in 0..(Len(line) - 1) :
              /\ CharAt(line, divPosition) = "/"
              /\ call' = [fn |-> "_extractExpression", line |-> line,
                          divPosition |-> divPosition,
                          result |-> _extractExpression(line, divPosition)]
    /\ UNCHANGED <<lexLine, lexMasked, lexMaskDone, lexPos, lexInside>>
    /\ UNCHANGED engineVars
    /\ UNCHANGED loadVars

UtilNext == Resolve \/ Substitute \/ Instantiate \/ Extract

SpecUtil == UtilInit /\ [][UtilNext]_vars

(***************************************************************************)
(* Properties of the helper functions                                      *)
(***************************************************************************)
\* C19: config resolution is a shallow merge with precedence override >
\* default: the resolved object has the keys of both arguments, every key of
\* the rule entry with the entry's value (a nested object as a whole) and
\* every key found only in the defaults with the default value.
C19_ShallowMergeOverrideWins ==
    call.fn = "applyConfigDefaults" =>
        /\ DOMAIN call.result = DOMAIN call.ruleConfig \cup DOMAIN call.defaults
        /\ \A k \in DOMAIN call.ruleConfig : call.result[k] = call.ruleConfig[k]
        /\ \A k \in DOMAIN call.defaults \ DOMAIN call.ruleConfig :
              call.result[k] = call.defaults[k]

\* defaults {enabled: true, severity: "warning"} and the entry
\* {severity: "error"} were resolved to enabled true, severity "error"
C19_Witness ==
    /\ call.fn = "applyConfigDefaults"
    /\ call.defaults = [enabled |-> TRUE, severity |-> "warning"]
    /\ call.ruleConfig = [severity |-> "error"]
    /\ call.result = [enabled |-> TRUE, severity |-> "error"]

\* the template with every occurrence of {key} replaced by the value, the
\* value copied character by character
RECURSIVE Verbatim(_, _, _)
Verbatim(template, key, value) ==
    LET placeholder == <<"{">> \o key \o <<"}">>
    IN  IF template = <<>> THEN <<>>
        ELSE IF StartsWithAt(template, 0, placeholder)
        THEN value \o Verbatim(SubSeq(template, Len(placeholder) + 1, Len(template)), key, value)
        ELSE <<Head(template)>> \o Verbatim(Tail(template), key, value)

\* C20: placeholder substitution replaces every occurrence of {key} by
\* values[key] as an opaque literal, in replacePlaceholders and in the
\* instantiation of a fix template alike: regex metacharacters and $
\* sequences of a value show up unchanged in the result.
C20_ValuesAreOpaqueLiterals ==
    call.fn \in {"replacePlaceholders", "fixedCode"} =>
        call.result = Verbatim(Verbatim(call.template, <<"e","x","p","r","e","s","s","i","o","n">>, call.expression),
                               <<"d","e","f","a","u","l","t","A","l","t","V","a","l","u","e">>, call.defaultAltValue)

(***************************************************************************)
(* The engine on single examples: a configuration is loaded, one text is   *)
(* typed into the input panel, then analysed and fixed.                    *)
(***************************************************************************)
ProtectTemplates ==
    [traditional |-> <<"p","r","o","t","e","c","t","(","{","e","x","p","r","e","s","s","i","o","n","}",
        ",",SP,"{","d","e","f","a","u","l","t","A","l","t","V","a","l","u","e","}",
        ")">>,
     method |-> <<"(","{","e","x","p","r","e","s","s","i","o","n","}",")",".","p","r","o","t","e",
        "c","t","(","{","d","e","f","a","u","l","t","A","l","t","V","a","l","u","e",
        "}",")">>]

\* division alone, fixed automatically with the protect templates
ProtectConfig ==
    [suggestionRules |->
        [divisionOperations |->
            [enabled |-> TRUE, autoFixEnabled |-> TRUE, fixStyle |-> "traditional",
             fixTemplates |-> ProtectTemplates]]]

\* the same with protect listed in skipIfWrappedIn
SkipProtectConfig ==
    [suggestionRules |->
        [divisionOperations |->
            [enabled |-> TRUE, autoFixEnabled |-> TRUE, fixStyle |-> "traditional",
             fixTemplates |-> ProtectTemplates,
             skipIfWrappedIn |-> <<<<"p","r","o","t","e","c","t">>>>]]]

\* variable naming alone, fixed automatically
NamingConfig ==
    [suggestionRules |->
        [variableNaming |-> [enabled |-> TRUE, autoFixEnabled |-> TRUE]]]

\* extraneous blocks alone
BlocksConfig ==
    [suggestionRules |-> [extraneousBlocks |-> [enabled |-> TRUE]]]

\* division has a template for the traditional form only, null access has no
\* fixTemplates at all
FallbackConfig ==
    [suggestionRules |->
        [divisionOperations |->
            [enabled |-> TRUE, autoFixEnabled |-> TRUE,
             fixTemplates |->
                 [traditional |-> <<"p","r","o","t","e","c","t","(","{","e","x","p","r","e","s","s","i","o","n","}",
        ",",SP,"{","d","e","f","a","u","l","t","A","l","t","V","a","l","u","e","}",
        ")">>]],
         nullAccessProtection |-> [enabled |-> TRUE, autoFixEnabled |-> TRUE]]]

\* division is fixed automatically, and the query pattern cannot be compiled
BrokenQueryConfig ==
    [suggestionRules |->
        [divisionOperations |->
            [enabled |-> TRUE, autoFixEnabled |-> TRUE,
             fixTemplates |-> ProtectTemplates],
         queryFunctions |-> BadQueryConfig.suggestionRules.queryFunctions]]

ExampleConfigs ==
    {ShippedConfig, ProtectConfig, SkipProtectConfig, NamingConfig, BlocksConfig,
     NoSkipConfig, FallbackConfig, BrokenQueryConfig}

\* a division inside a string literal
QuotedDivision == <<"x",SP,"=",SP,DQ,"a","/","b",DQ,";">>

\* what each rule looks for, inside string literals of both kinds (the second
\* with an escaped quote), and a node reference outside them
QuotedPatterns == <<"T","_","v",SP,"=",SP,DQ,"q","u","e","r","y","(","c",".","d",")",SP,"/",SP,"u",
        "n","i","q","u","e","K","e","y","(","P","r","i","m","a","r","y",".","n",")",
        SP,"+",SP,"m",SP,"-",SP,"p",SP,"*",SP,"q",DQ,SP,"+",SP,SQ,"i","t",BS,SQ,"s",
        SP,"b","l","o","c","k","(","Q","_","r",SP,"=",SP,"a","/","b",")",SQ,SP,"+",
        SP,"P","r","i","m","a","r","y",".","n">>

\* a division wrapped in the call form and in the method form
WrappedCall == <<"r","e","s","u","l","t",SP,"=",SP,"p","r","o","t","e","c","t","(","t","o","t","a",
        "l",SP,"/",SP,"c","o","u","n","t",",",SP,"0",")">>
WrappedMethod == <<"r","e","s","u","l","t",SP,"=",SP,"(","t","o","t","a","l",SP,"/",SP,"c","o","u",
        "n","t",")",".","p","r","o","t","e","c","t","(","0",")">>

PlainDivision == <<"r","e","s","u","l","t",SP,"=",SP,"t","o","t","a","l",SP,"/",SP,"c","o","u","n","t">>

\* a declaration, another use of its name and a longer name that contains it
NamingDoc == <<"v","a","r",SP,"m","y","_","v","a","r","i","a","b","l","e",SP,"=",SP,"1",";",NL,
        "y",SP,"=",SP,"m","y","_","v","a","r","i","a","b","l","e",SP,"+",SP,"m","y",
        "_","v","a","r","i","a","b","l","e","2",";">>

\* block( content ): the contents, each with its number of top-level statements
BlockCases ==
    {[content |-> <<"a">>, statements |-> 1],
     [content |-> <<"f","(","a",",",SP,"b",")">>, statements |-> 1],
     [content |-> <<"[","a",",",SP,"b","]">>, statements |-> 1],
     [content |-> <<"{","a",",",SP,"b","}">>, statements |-> 1],
     [content |-> <<"g","(",DQ,"a",",",SP,"b",DQ,")">>, statements |-> 1],
     [content |-> <<NL,SP,SP,SP,SP,"x",SP,"=",SP,"5",NL>>, statements |-> 1],
     [content |-> <<"a",",",SP,"b">>, statements |-> 2],
     [content |-> <<"f","(","a",",",SP,"b",")",",",SP,"[","c",",",SP,"d","]",",",SP,"e">>, statements |-> 3],
     [content |-> <<NL,SP,SP,SP,SP,"x",SP,"=",SP,"5",",",NL,SP,SP,SP,SP,"y",SP,"=",SP,"6",NL>>, statements |-> 2]}

BlockDoc(content) == <<"b","l","o","c","k","(">> \o content \o <<")">>

\* three lines that several rules report
ReportDoc == JoinLines(<<MixedLine, DivisionLine, MixedLine>>)

\* the same division on two lines
TwiceDoc == <<"x",SP,"=",SP,"a","/","b",NL,"y",SP,"=",SP,"a","/","b">>

\* a division on one line and a property access on the next
TwoRulesDoc == <<"x",SP,"=",SP,"a","/","b",NL,"y",SP,"=",SP,"c",".","d">>

\* a property access as the dividend
AccessDividend == <<"z",SP,"=",SP,"c",".","d",SP,"/",SP,"e">>

\* a call of a query function after // and one between /* and */
LineComment == <<"y",SP,"=",SP,"1",SP,"/","/",SP,"s","u","m","Q","u","e","r","y","(","x",")">>
BlockComment == <<"/","*",SP,"q","u","e","r","y","(","x",")",SP,"*","/">>

ExampleDocs ==
    {QuotedDivision, QuotedPatterns, WrappedCall, WrappedMethod, PlainDivision,
     NamingDoc, ReportDoc, TwiceDoc, TwoRulesDoc, AccessDividend, LineComment,
     BlockComment}
        \cup {BlockDoc(c.content) : c \in BlockCases}

\* the form selection the page makes around applyCodeSuggestions
ExampleSelections == {NoSelection, ForcedMethod}

ExampleInit ==
    /\ LexIdle
    /\ config \in ExampleConfigs
    /\ formUI \in ExampleSelections
    /\ code = <<>>
    /\ counters = ZeroCounters
    /\ last = NoCall
    /\ passes = 0
    /\ LoadIdle

\* the example is typed into the empty input panel
LoadExample ==
    /\ code = <<>>
    /\ \E doc \in ExampleDocs : code' = doc
    /\ last' = NoCall
    /\ passes' = 0
    /\ UNCHANGED <<config, formUI, counters>>
    /\ UNCHANGED lexVars
    /\ UNCHANGED loadVars

ExampleNext == LoadExample \/ Analyze \/ ApplyFixes

SpecExamples == ExampleInit /\ [][ExampleNext]_vars

(***************************************************************************)
(* Properties of the rules, shown on the examples                          *)
(***************************************************************************)
LineOf(text, lineNumber) == SplitLines(text)[lineNumber]

\* C11: no rule reports a pattern occurrence that lies inside a string
\* literal: a suggestion's column is never a position within a literal of its
\* line, and the line x = "a/b"; gets no division suggestion.
C11_NothingReportedInsideLiterals ==
    (last.op = "analyze" /\ ~last.threw) =>
        /\ \A k \in 1..Len(last.suggestions) :
              ~InLiteral(LineOf(last.input, last.suggestions[k].line),
                         last.suggestions[k].column)
        /\ last.input = QuotedDivision =>
              RuleSuggestions(last.suggestions, "divisionOperations") = <<>>

\* the line with every rule's pattern inside literals was analysed with all
\* rules enabled: only the name it assigns to and the node reference after
\* the literals were reported
C11_Witness ==
    /\ last.op = "analyze"
    /\ config = ShippedConfig
    /\ last.input = QuotedPatterns
    /\ ~last.threw
    /\ Len(last.suggestions) = 3
    /\ last.suggestions[1].rule = "variableNaming"
    /\ last.suggestions[1].column = 0
    /\ last.suggestions[2].rule = "nonOptimalNodeAccess"
    /\ last.suggestions[2].column = 83
    /\ last.suggestions[3].rule = "nullAccessProtection"
    /\ last.suggestions[3].column = 83

\* C12: a division that is already wrapped by a function of skipIfWrappedIn
\* gets no division suggestion, in the call form protect(expr, ...) and in
\* the method form (expr).protect(...) alike.
C12_WrappedDivisionsAreSkipped ==
    (last.op = "analyze" /\ ~last.threw /\ config = SkipProtectConfig
        /\ last.input \in {WrappedCall, WrappedMethod}) =>
        RuleSuggestions(last.suggestions, "divisionOperations") = <<>>

\* C13: with the division rule enabled, auto-fix on, the traditional form
\* and the template protect({expression}, {defaultAltValue}), applying the
\* fixes to result = total / count gives
\* result = protect(total / count, DEFAULT_1).
C13_DivisionWrappedOnce ==
    (last.op = "fix" /\ passes = 1 /\ config \in {ProtectConfig, SkipProtectConfig}
        /\ last.input = PlainDivision) =>
        last.output = <<"r","e","s","u","l","t",SP,"=",SP,"p","r","o","t","e","c","t","(","t","o","t","a",
        "l",SP,"/",SP,"c","o","u","n","t",",",SP,"D","E","F","A","U","L","T","_",
        "1",")">>

\* C14: with the variable naming rule enabled and auto-fix on, applying the
\* fixes renames the declared my_variable to myVariable, and every other
\* whole-word occurrence with it; my_variable2 keeps its name.
C14_NamingFixRenamesEveryUse ==
    (last.op = "fix" /\ passes = 1 /\ config = NamingConfig /\ last.input = NamingDoc) =>
        last.output = <<"v","a","r",SP,"m","y","V","a","r","i","a","b","l","e",SP,"=",SP,"1",";",NL,"y",
        SP,"=",SP,"m","y","V","a","r","i","a","b","l","e",SP,"+",SP,"m","y","_","v",
        "a","r","i","a","b","l","e","2",";">>

\* C15: a block( ) wrapper, on one line or over several, gets exactly one
\* suggestion of the extraneous blocks rule when its content is one top-level
\* statement and none when it holds two or more; commas inside ( ), [ ] and
\* { } separate nothing.
C15_OneStatementBlocksAreReported ==
    (last.op = "analyze" /\ ~last.threw /\ config \in {BlocksConfig, ShippedConfig}) =>
        \A c \in BlockCases :
            last.input = BlockDoc(c.content) =>
                LET own == RuleSuggestions(last.suggestions, "extraneousBlocks")
                IN  IF c.statements = 1
                    THEN /\ Len(own) = 1
                         /\ own[1].line = 1
                         /\ own[1].column = 0
                         /\ own[1].message = OrDefault(config.suggestionRules.extraneousBlocks,
                                                       "suggestion", BlockWrapperMessage)
                    ELSE own = <<>>

\* block(f(a, b)), whose only commas are nested, was analysed and reported once
C15_Witness ==
    /\ last.op = "analyze"
    /\ config = BlocksConfig
    /\ last.input = <<"b","l","o","c","k","(","f","(","a",",",SP,"b",")",")">>
    /\ Len(last.suggestions) = 1
    /\ last.suggestions[1].rule = "extraneousBlocks"
    /\ last.suggestions[1].message = <<"R","e","m","o","v","e",SP,"u","n","n","e","c","e","s","s","a","r","y",SP,"b","l",
        "o","c","k","(",")",SP,"w","r","a","p","p","e","r",SP,"f","o","r",SP,"s",
        "i","n","g","l","e",SP,"s","t","a","t","e","m","e","n","t",".">>

\* the line as literal masking leaves it: the characters of a literal are spaces
MaskedSource(line) ==
    [k \in 1..Len(line) |-> IF InLiteral(line, k - 1) THEN SP ELSE line[k]]

\* C16: a suggestion's line and column index into the analysed text, and its
\* original, when it has one, is the text found at that line and column of
\* the text (literals masked).
C16_OriginalIsTheTextAtLineAndColumn ==
    (last.op = "analyze" /\ ~last.threw) =>
        \A k \in 1..Len(last.suggestions) :
            LET s == last.suggestions[k]
            IN  /\ s.line \in 1..Len(SplitLines(last.input))
                /\ s.column \in 0..(Len(LineOf(last.input, s.line)) - 1)
                /\ Has(s, "original") =>
                      Substring(MaskedSource(LineOf(last.input, s.line)), s.column,
                                s.column + Len(s.original)) = s.original

\* where a rule stands in DSL_RULES
RuleIndex(name) == CHOOSE i \in 1..Len(RuleNames) : RuleNames[i] = name

\* C17: analyze returns the suggestions rule by rule in registration order,
\* and those of one rule by non-decreasing line number.
C17_RuleMajorThenLineMajor ==
    (last.op = "analyze" /\ ~last.threw) =>
        \A i, j \in 1..Len(last.suggestions) :
            i < j =>
                /\ RuleIndex(last.suggestions[i].rule) <= RuleIndex(last.suggestions[j].rule)
                /\ last.suggestions[i].rule = last.suggestions[j].rule =>
                      last.suggestions[i].line <= last.suggestions[j].line

\* three lines were analysed with all rules enabled: the division of line 2
\* comes first, then the query calls of lines 1 and 3, and so on rule by rule
C17_Witness ==
    /\ last.op = "analyze"
    /\ config = ShippedConfig
    /\ last.input = ReportDoc
    /\ Len(last.suggestions) = 15
    /\ last.suggestions[1].rule = "divisionOperations"
    /\ last.suggestions[1].line = 2
    /\ last.suggestions[2].rule = "queryFunctions"
    /\ last.suggestions[2].line = 1
    /\ last.suggestions[3].rule = "queryFunctions"
    /\ last.suggestions[3].line = 3
    /\ last.suggestions[15].rule = "extraneousBlocks"

RECURSIVE SumOver(_, _)
SumOver(f, keys) ==
    IF keys = {} THEN 0
    ELSE LET k == CHOOSE x \in keys : TRUE
         IN  f[k] + SumOver(f, keys \ {k})

\* C18: summary.total is the number of suggestions and summary.bySeverity
\* counts the suggestions of each severity, so its counts add up to total.
C18_SummaryCountsSuggestions ==
    (last.op = "analyze" /\ ~last.threw) =>
        LET idx == 1..Len(last.suggestions)
            by  == last.summary.bySeverity
        IN  /\ last.summary.total = Len(last.suggestions)
            /\ DOMAIN by = {last.suggestions[k].severity : k \in idx}
            /\ \A s \in DOMAIN by :
                  by[s] = Cardinality({k \in idx : last.suggestions[k].severity = s})
            /\ SumOver(by, DOMAIN by) = last.summary.total

\* an analysis with five warnings and ten infos was summarised
C18_Witness ==
    /\ last.op = "analyze"
    /\ last.input = ReportDoc
    /\ last.summary.total = 15
    /\ last.summary.bySeverity = [warning |-> 5, info |-> 10]

(***************************************************************************)
(* Fixes on text that is already wrapped, block wrappers and comments.     *)
(***************************************************************************)
CountOf(s, lit) ==
    Cardinality({i \in 0..(Len(s) - Len(lit)) : StartsWithAt(s, i, lit)})

\* C21: a fix never wraps an occurrence that is already wrapped, and text that
\* occurs several times is wrapped at most once per occurrence: with protect
\* as the division wrapper, a line of the output has no more protect( calls
\* than the line had division operators.
C21_EveryOccurrenceWrappedAtMostOnce ==
    (last.op = "fix" /\ config \in {ProtectConfig, SkipProtectConfig}) =>
        \A k \in 1..Len(SplitLines(last.input)) :
            CountOf(LineOf(last.output, k), <<"p","r","o","t","e","c","t","(">>)
                <= CountOf(LineOf(last.input, k), <<"/">>)

\* C24: with extraneousBlocks enabled and its auto-fix on, as shipped, fixing
\* block(a) removes the wrapper and leaves the statement.
C24_FixRemovesTheBlockWrapper ==
    (last.op = "fix" /\ passes = 1 /\ config = ShippedConfig
        /\ last.input = BlockDoc(<<"a">>)) =>
        last.output = <<"a">>

\* position p of the line is behind an opening // or inside /* ... */
InComment(line, p) ==
    \E i \in 0..(p - 1) :
        /\ ~InLiteral(line, i)
        /\ \/ StartsWithAt(line, i, <<"/","/">>)
           \/ /\ StartsWithAt(line, i, <<"/","*">>)
              /\ \A j \in (i + 2)..(p - 1) : ~StartsWithAt(line, j, <<"*","/">>)

\* C25: queryFunctions reports real calls only: none of its suggestions is at
\* a position inside a string literal or inside a comment.
C25_QueryCallsOutsideLiteralsAndComments ==
    (last.op = "analyze" /\ ~last.threw) =>
        \A k \in 1..Len(last.suggestions) :
            last.suggestions[k].rule = "queryFunctions" =>
                /\ ~InLiteral(LineOf(last.input, last.suggestions[k].line),
                              last.suggestions[k].column)
                /\ ~InComment(LineOf(last.input, last.suggestions[k].line),
                              last.suggestions[k].column)

(***************************************************************************)
(* One pass over several rules, errors inside the pass, missing templates. *)
(***************************************************************************)
\* the entries of applied that are the last fix of their rule
LastFixOf(applied, name) ==
    {i \in DOMAIN applied :
        /\ applied[i].rule = name
        /\ \A j \in (i + 1)..Len(applied) : applied[j].rule # name}

TwoRulesFixed == <<"x",SP,"=",SP,"i","f","N","a","N","(","a","/","b",",",SP,"D","E","F","_","V","A",
        "L","_","D","I","V","_","B","Y","_","Z","E","R","O","_","1",")",NL,"y",SP,
        "=",SP,"i","f","N","u","l","l","(","c",".","d",",",SP,"D","E","F","_","V",
        "A","L","_","N","U","L","L","_","S","A","F","E","T","Y","_","1",")">>

C23_ErrorsReturnTheInput ==
    (last.op = "fix" /\ last.threw) =>
        /\ last.output = last.input
        /\ code = last.input
        /\ last.applied = <<>>

\* a pass in which the division fix threw, and one in which the analysis did
C23_Witness ==
    /\ last.op = "fix" /\ last.threw /\ last.output = last.input
    /\ \/ config = SkipProtectConfig /\ last.input = PlainDivision
       \/ config = BrokenQueryConfig /\ last.input = TwoRulesDoc

\* TwoRulesDoc rewritten with both hardcoded templates, and with the
\* configured template for division
BothHardcoded == <<"x",SP,"=",SP,"i","f","N","a","N","(","a","/","b",",",SP,"D","E","F","_","V","A",
        "L","_","D","I","V","_","B","Y","_","Z","E","R","O","_","1",")",NL,"y",SP,
        "=",SP,"i","f","N","u","l","l","(","c",".","d",")">>
NullHardcoded == <<"x",SP,"=",SP,"p","r","o","t","e","c","t","(","a","/","b",",",SP,"D","E","F","_",
        "V","A","L","_","D","I","V","_","B","Y","_","Z","E","R","O","_","1",")",NL,
        "y",SP,"=",SP,"i","f","N","u","l","l","(","c",".","d",")">>

\* C27: a rule whose fixTemplates is missing, or has no entry for the selected
\* form, still rewrites, with its hardcoded template: ifNaN({expression},
\* {defaultAltValue}) for division, ifNull({expression}) for null access.
C27_MissingTemplateFallsBack ==
    (last.op = "fix" /\ passes = 1 /\ config = FallbackConfig
        /\ last.input = TwoRulesDoc) =>
        /\ ~last.threw
        /\ last.output =
               IF last.form = "method" THEN BothHardcoded ELSE NullHardcoded

\* the method form is selected and neither rule has a template for it
C27_Witness ==
    /\ last.op = "fix" /\ passes = 1 /\ config = FallbackConfig
    /\ last.form = "method" /\ last.input = TwoRulesDoc
    /\ last.output = BothHardcoded

(***************************************************************************)
(* The expression around a division operator.                              *)
(***************************************************************************)
StartDelimiters == {"=", ",", "("}
EndDelimiters == {",", ")"}

\* start is right behind the nearest start delimiter before p, or the start
\* of the line when there is none
IsExpressionStart(line, p, start) ==
    /\ start \in 0..p
    /\ \A i \in start..(p - 1) : CharAt(line, i) \notin StartDelimiters
    /\ start = 0 \/ CharAt(line, start - 1) \in StartDelimiters

\* end is at the nearest end delimiter behind p, or the end of the line when
\* there is none
IsExpressionEnd(line, p, end) ==
    /\ end \in (p + 1)..Len(line)
    /\ \A i \in (p + 1)..(end - 1) : CharAt(line, i) \notin EndDelimiters
    /\ end = Len(line) \/ CharAt(line, end) \in EndDelimiters

\* t is s without the blanks at its two ends
IsTrimOf(t, s) ==
    /\ t = <<>> \/ (Head(t) # SP /\ t[Len(t)] # SP)
    /\ \E a \in 0..Len(s) :
          /\ a + Len(t) <= Len(s)
          /\ t = Substring(s, a, a + Len(t))
          /\ \A i \in 0..(a - 1) : CharAt(s, i) = SP
          /\ \A i \in (a + Len(t))..(Len(s) - 1) : CharAt(s, i) = SP

\* C26: for a division operator at any position of a line, the expression is
\* the text strictly between the nearest '=', ',' or '(' before it and the
\* nearest ',' or ')' behind it, the start or the end of the line when there is
\* no such delimiter, without the blanks at its ends; a text is returned for
\* every line and position.
C26_ExpressionBetweenNearestDelimiters ==
    call.fn = "_extractExpression" =>
        \E start \in 0..call.divPosition, end \in (call.divPosition + 1)..Len(call.line) :
            /\ IsExpressionStart(call.line, call.divPosition, start)
            /\ IsExpressionEnd(call.line, call.divPosition, end)
            /\ IsTrimOf(call.result, Substring(call.line, start, end))

\* delimiters on both sides, one of each kind nearer than another, and blanks
\* to trim
C26_Witness ==
    /\ call.fn = "_extractExpression"
    /\ call.line = <<"=", "(", SP, "/", ")">>
    /\ call.divPosition = 3
    /\ call.result = <<"/">>

(***************************************************************************)
(* Script loading: loadSuggestionsConfig and loadSuggestionRules of the    *)
(* rule module loader, and the auto-load of the engine.  A script element  *)
(* fires load or error once; a timer fires once.                           *)
(***************************************************************************)
EngineIdle ==
    /\ config = EmptyObject
    /\ formUI = NoSelection
    /\ code = <<>>
    /\ counters = ZeroCounters
    /\ last = NoCall
    /\ passes = 0

Callback(name, arg) == [kind |-> "callback", name |-> name, arg |-> arg]
Dispatch(name) == [kind |-> "event", name |-> name]

ScriptElement(file) == [kind |-> "script", file |-> file]
CheckTimer(file) == [kind |-> "check", file |-> file]
RetryTimer == [kind |-> "onRetry", file |-> ConfigFile]
AttemptTimer == [kind |-> "attemptLoad", file |-> ConfigFile]

\* what a loaded script leaves behind: the global it is to define, or nothing
AfterScript(defines, global) == IF defines THEN globals \cup {global} ELSE globals

SetStatus(file, status) == [tracker EXCEPT ![file].status = status]

maxLoadAttempts == 3

\* a variant that lets one more attempt through
AttemptsExceeded_OneMore(attempts) == attempts > maxLoadAttempts + 1

\* configLoadAttempts > maxLoadAttempts
AttemptsExceeded(attempts) == attempts > maxLoadAttempts

\* loadScript for the configuration file, up to appendChild
loadScript ==
    /\ tracker' = [tracker EXCEPT ![ConfigFile].status = "Loading",
                                  ![ConfigFile].attempts = @ + 1]
    /\ pending' = {ScriptElement(ConfigFile)}

\* attemptLoad of loadSuggestionsConfig
attemptLoad ==
    /\ configLoadAttempts' = configLoadAttempts + 1
    /\ IF ConfigGlobal \in globals
       THEN /\ observed' = Append(observed, Callback("loadSuggestionsConfig", TRUE))
            /\ pending' = {}
            /\ UNCHANGED tracker
       ELSE IF AttemptsExceeded(configLoadAttempts + 1)
       THEN /\ observed' = Append(observed, Callback("loadSuggestionsConfig", FALSE))
            /\ pending' = {}
            /\ UNCHANGED tracker
       ELSE /\ loadScript
            /\ UNCHANGED observed
    /\ UNCHANGED globals

\* DSLRuleModuleLoader.loadSuggestionsConfig(callback)
loadSuggestionsConfig ==
    /\ entry = "none"
    /\ entry' = "loadSuggestionsConfig"
    /\ attemptLoad
    /\ UNCHANGED <<ruleRegistry, rulesLoaded, loadedRules>>
    /\ UNCHANGED lexVars
    /\ UNCHANGED engineVars

\* script.onload of the configuration script: the file was executed
ConfigScriptLoaded ==
    /\ entry = "loadSuggestionsConfig"
    /\ ScriptElement(ConfigFile) \in pending
    /\ \E defines \in BOOLEAN : globals' = AfterScript(defines, ConfigGlobal)
    /\ pending' = {CheckTimer(ConfigFile)}
    /\ UNCHANGED <<entry, configLoadAttempts, tracker, observed>>
    /\ UNCHANGED <<ruleRegistry, rulesLoaded, loadedRules>>
    /\ UNCHANGED lexVars
    /\ UNCHANGED engineVars

\* the check SCRIPT_CHECK_DELAY after onload: onSuccess, or the retry timer
ConfigScriptChecked ==
    /\ entry = "loadSuggestionsConfig"
    /\ CheckTimer(ConfigFile) \in pending
    /\ IF ConfigGlobal \in globals
       THEN /\ tracker' = SetStatus(ConfigFile, "Loaded")
            /\ observed' = observed \o <<Dispatch("dslSuggestionsConfigLoaded"),
                                         Callback("loadSuggestionsConfig", TRUE)>>
            /\ pending' = {}
       ELSE /\ tracker' = SetStatus(ConfigFile, "Failed")
            /\ pending' = {RetryTimer}
            /\ UNCHANGED observed
    /\ UNCHANGED <<entry, globals, configLoadAttempts>>
    /\ UNCHANGED <<ruleRegistry, rulesLoaded, loadedRules>>
    /\ UNCHANGED lexVars
    /\ UNCHANGED engineVars

\* onRetry: setTimeout(attemptLoad, RETRY_DELAY_SHORT)
ConfigOnRetry ==
    /\ entry = "loadSuggestionsConfig"
    /\ RetryTimer \in pending
    /\ pending' = {AttemptTimer}
    /\ UNCHANGED <<entry, globals, configLoadAttempts, tracker, observed>>
    /\ UNCHANGED <<ruleRegistry, rulesLoaded, loadedRules>>
    /\ UNCHANGED lexVars
    /\ UNCHANGED engineVars

\* the timer of attemptLoad fires
ConfigAttemptAgain ==
    /\ entry = "loadSuggestionsConfig"
    /\ AttemptTimer \in pending
    /\ attemptLoad
    /\ UNCHANGED <<entry, ruleRegistry, rulesLoaded, loadedRules>>
    /\ UNCHANGED lexVars
    /\ UNCHANGED engineVars

\* script.onerror of the configuration script, with onError
ConfigScriptError ==
    /\ entry = "loadSuggestionsConfig"
    /\ ScriptElement(ConfigFile) \in pending
    /\ tracker' = SetStatus(ConfigFile, "Not Found")
    /\ IF configLoadAttempts < maxLoadAttempts
       THEN /\ pending' = {AttemptTimer}
            /\ UNCHANGED observed
       ELSE /\ pending' = {}
            /\ observed' = Append(observed, Callback("loadSuggestionsConfig", FALSE))
    /\ UNCHANGED <<entry, globals, configLoadAttempts>>
    /\ UNCHANGED <<ruleRegistry, rulesLoaded, loadedRules>>
    /\ UNCHANGED lexVars
    /\ UNCHANGED engineVars

\* ---- loadSuggestionRules ----
RuleFiles ==
    {"divisionOperationsRule.js", "queryFunctionsRule.js", "uniqueKeyRule.js",
     "variableNamingRule.js"}

\* deriveGlobalVar(fileName): without .js, the first letter in upper case
deriveGlobalVar(fileName) ==
    CASE fileName = "divisionOperationsRule.js" -> "DivisionOperationsRule"
      [] fileName = "queryFunctionsRule.js" -> "QueryFunctionsRule"
      [] fileName = "uniqueKeyRule.js" -> "UniqueKeyRule"
      [] fileName = "variableNamingRule.js" -> "VariableNamingRule"

MaxRegistry == 3

\* the registries: up to MaxRegistry different file names in any order, and
\* a value that is not an array
Registries ==
    {[isArray |-> TRUE, items |-> r] :
        r \in {q \in SeqsUpTo(RuleFiles, MaxRegistry) :
                  \A i, j \in DOMAIN q : q[i] = q[j] => i = j}}
        \cup {NoRegistry}

\* the loop variable fileName as the callbacks of the rule files find it: the
\* loop has run to its end before the first of them is called
fileName == ruleRegistry.items[Len(ruleRegistry.items)]

totalRules == Len(ruleRegistry.items)

\* the callback loadSuggestionRules hands to loadRuleModule
RuleModuleCallback(success) ==
    /\ rulesLoaded' = rulesLoaded + 1
    /\ loadedRules' = IF success THEN Append(loadedRules, fileName) ELSE loadedRules
    /\ observed' =
          IF rulesLoaded + 1 = totalRules
          THEN observed \o <<Dispatch("dslRulesLoaded"),
                             Callback("loadSuggestionRules", loadedRules')>>
          ELSE observed

\* DSLRuleModuleLoader.loadSuggestionRules(ruleRegistry, callback), with the
\* loadRuleModule calls of its loop up to appendChild
loadSuggestionRules ==
    /\ entry = "none"
    /\ entry' = "loadSuggestionRules"
    /\ \E registry \in Registries :
          /\ ruleRegistry' = registry
          /\ IF ~registry.isArray
             THEN /\ observed' = Append(observed, Callback("loadSuggestionRules", <<>>))
                  /\ UNCHANGED <<tracker, pending>>
             ELSE /\ tracker' =
                        [f \in {registry.items[i] : i \in DOMAIN registry.items} |->
                            [status |-> "Loading", attempts |-> 1, maxAttempts |-> 1]]
                        @@ tracker
                  /\ pending' =
                        {ScriptElement(registry.items[i]) : i \in DOMAIN registry.items}
                  /\ UNCHANGED observed
    /\ rulesLoaded' = 0
    /\ loadedRules' = <<>>
    /\ UNCHANGED <<globals, configLoadAttempts>>
    /\ UNCHANGED lexVars
    /\ UNCHANGED engineVars

\* script.onload of a rule file
RuleScriptLoaded ==
    /\ entry = "loadSuggestionRules"
    /\ \E file \in RuleFiles :
          /\ ScriptElement(file) \in pending
          /\ \E defines \in BOOLEAN :
                globals' = AfterScript(defines, deriveGlobalVar(file))
          /\ pending' = (pending \ {ScriptElement(file)}) \cup {CheckTimer(file)}
    /\ UNCHANGED <<entry, configLoadAttempts, tracker, observed>>
    /\ UNCHANGED <<ruleRegistry, rulesLoaded, loadedRules>>
    /\ UNCHANGED lexVars
    /\ UNCHANGED engineVars

\* the check 50 ms after onload of a rule file
RuleScriptChecked ==
    /\ entry = "loadSuggestionRules"
    /\ \E file \in RuleFiles :
          /\ CheckTimer(file) \in pending
          /\ pending' = pending \ {CheckTimer(file)}
          /\ IF deriveGlobalVar(file) \in globals
             THEN tracker' = SetStatus(file, "Loaded") /\ RuleModuleCallback(TRUE)
             ELSE tracker' = SetStatus(file, "Failed") /\ RuleModuleCallback(FALSE)
    /\ UNCHANGED <<entry, globals, configLoadAttempts, ruleRegistry>>
    /\ UNCHANGED lexVars
    /\ UNCHANGED engineVars

\* script.onerror of a rule file
RuleScriptError ==
    /\ entry = "loadSuggestionRules"
    /\ \E file \in RuleFiles :
          /\ ScriptElement(file) \in pending
          /\ pending' = pending \ {ScriptElement(file)}
          /\ tracker' = SetStatus(file, "Not Found")
          /\ RuleModuleCallback(FALSE)
    /\ UNCHANGED <<entry, globals, configLoadAttempts, ruleRegistry>>
    /\ UNCHANGED lexVars
    /\ UNCHANGED engineVars

\* ---- the auto-load of the engine ----
EngineSteps == {"config", "utilities", "rules"}

EngineScript(step) ==
    CASE step = "config" -> "dslSuggestionsConfig.js?v=3.24"
      [] step = "utilities" -> "dslRuleUtilities.js?v=3.24"
      [] step = "rules" -> "dslRules.js?v=3.24"

EngineGlobal(step) ==
    CASE step = "config" -> ConfigGlobal
      [] step = "utilities" -> "DSLRuleUtils"
      [] step = "rules" -> "DSL_RULES"

\* a variant that loads the rules before the utilities
StepAfter_RulesFirst(step) ==
    CASE step = "config" -> "rules"
      [] step = "rules" -> "utilities"
      [] step = "utilities" -> "ready"

\* the nesting of the callbacks: config, then utilities, then rules, then
\* completeInitialization
StepAfter(step) ==
    CASE step = "config" -> "utilities"
      [] step = "utilities" -> "rules"
      [] step = "rules" -> "ready"

\* the callback of a step: the next script is added, or completeInitialization
\* dispatches the event
StepCompleted(step, success) ==
    IF StepAfter(step) = "ready"
    THEN /\ observed' = observed \o <<Callback(step, success),
                                      Dispatch("dslSuggestionsEngineReady")>>
         /\ pending' = {}
    ELSE /\ observed' = Append(observed, Callback(step, success))
         /\ pending' = {ScriptElement(EngineScript(StepAfter(step)))}

\* the engine file is executed: loadSuggestionsConfig of the engine adds the
\* configuration script
EngineAutoLoad ==
    /\ entry = "none"
    /\ entry' = "engine"
    /\ pending' = {ScriptElement(EngineScript("config"))}
    /\ UNCHANGED <<globals, configLoadAttempts, tracker, observed>>
    /\ UNCHANGED <<ruleRegistry, rulesLoaded, loadedRules>>
    /\ UNCHANGED lexVars
    /\ UNCHANGED engineVars

\* script.onload of the script of a step
EngineScriptLoaded ==
    /\ entry = "engine"
    /\ \E step \in EngineSteps :
          /\ ScriptElement(EngineScript(step)) \in pending
          /\ \E defines \in BOOLEAN : globals' = AfterScript(defines, EngineGlobal(step))
          /\ pending' = {CheckTimer(EngineScript(step))}
    /\ UNCHANGED <<entry, configLoadAttempts, tracker, observed>>
    /\ UNCHANGED <<ruleRegistry, rulesLoaded, loadedRules>>
    /\ UNCHANGED lexVars
    /\ UNCHANGED engineVars

\* the check 50 ms after onload of the script of a step
EngineScriptChecked ==
    /\ entry = "engine"
    /\ \E step \in EngineSteps :
          /\ CheckTimer(EngineScript(step)) \in pending
          /\ StepCompleted(step, EngineGlobal(step) \in globals)
    /\ UNCHANGED <<entry, globals, configLoadAttempts, tracker>>
    /\ UNCHANGED <<ruleRegistry, rulesLoaded, loadedRules>>
    /\ UNCHANGED lexVars
    /\ UNCHANGED engineVars

\* script.onerror of the script of a step
EngineScriptError ==
    /\ entry = "engine"
    /\ \E step \in EngineSteps :
          /\ ScriptElement(EngineScript(step)) \in pending
          /\ StepCompleted(step, FALSE)
    /\ UNCHANGED <<entry, globals, configLoadAttempts, tracker>>
    /\ UNCHANGED <<ruleRegistry, rulesLoaded, loadedRules>>
    /\ UNCHANGED lexVars
    /\ UNCHANGED engineVars

\* the page before a loading function is called; the configuration may have
\* been defined by an earlier script
LoadInit ==
    /\ LexIdle
    /\ EngineIdle
    /\ entry = "none"
    /\ globals \in {{}, {ConfigGlobal}}
    /\ configLoadAttempts = 0
    /\ tracker = InitialTracker
    /\ pending = {}
    /\ observed = <<>>
    /\ ruleRegistry = NoRegistry
    /\ rulesLoaded = 0
    /\ loadedRules = <<>>

LoadNext ==
    \/ loadSuggestionsConfig
    \/ ConfigScriptLoaded
    \/ ConfigScriptChecked
    \/ ConfigOnRetry
    \/ ConfigAttemptAgain
    \/ ConfigScriptError
    \/ loadSuggestionRules
    \/ RuleScriptLoaded
    \/ RuleScriptChecked
    \/ RuleScriptError
    \/ EngineAutoLoad
    \/ EngineScriptLoaded
    \/ EngineScriptChecked
    \/ EngineScriptError

SpecLoad == LoadInit /\ [][LoadNext]_vars

\* every script element fires load or error, and every timer fires
SpecLoadFair == SpecLoad /\ WF_vars(LoadNext)

(***************************************************************************)
(* Callbacks and events of the loading functions.                          *)
(***************************************************************************)
\* the invocations of the callback of a loading function, in order
CallsOf(name) ==
    SelectSeq(observed, LAMBDA o : o.kind = "callback" /\ o.name = name)

\* how often an event was dispatched
DispatchesOf(name) ==
    Len(SelectSeq(observed, LAMBDA o : o.kind = "event" /\ o.name = name))

\* the files of the registry whose load succeeded
SucceededRules ==
    {f \in DOMAIN tracker : f \in RuleFiles /\ tracker[f].status = "Loaded"}

\* C28: for a registry of any length and any order in which the script loads
\* complete, loadSuggestionRules invokes its callback once, after every file
\* of the registry has finished loading, with the names of the files whose
\* load succeeded.
C28_CallbackOnceWithTheLoadedFiles ==
    entry = "loadSuggestionRules" =>
        LET calls == CallsOf("loadSuggestionRules")
        IN  /\ Len(calls) <= 1
            /\ calls # <<>> => pending = {}
            /\ pending = {} =>
                  /\ Len(calls) = 1
                  /\ Len(calls[1].arg) = Cardinality(SucceededRules)
                  /\ {calls[1].arg[i] : i \in DOMAIN calls[1].arg} = SucceededRules

\* C29: loadSuggestionsConfig starts at most three script loads, the attempts
\* the tracker counts never exceed maxAttempts, and under every sequence of
\* load errors and loads that leave the data undefined the callback is invoked
\* once, with true exactly if the configuration data is defined.
C29_AttemptsBounded ==
    entry = "loadSuggestionsConfig" =>
        LET calls == CallsOf("loadSuggestionsConfig")
        IN  /\ tracker[ConfigFile].attempts <= tracker[ConfigFile].maxAttempts
            /\ tracker[ConfigFile].attempts <= 3
            /\ Len(calls) <= 1
            /\ calls # <<>> =>
                  /\ pending = {}
                  /\ calls[1].arg = (ConfigGlobal \in globals)

C29_CallbackInvoked ==
    /\ entry = "loadSuggestionsConfig"
    /\ Len(CallsOf("loadSuggestionsConfig")) = 1

C29_ConfigLoadTerminates ==
    /\ []C29_AttemptsBounded
    /\ (entry = "loadSuggestionsConfig") ~> C29_CallbackInvoked

\* three script loads that left the data undefined, then callback(false)
C29_Witness ==
    /\ entry = "loadSuggestionsConfig"
    /\ tracker[ConfigFile].attempts = 3
    /\ tracker[ConfigFile].status = "Failed"
    /\ configLoadAttempts = 4
    /\ observed = <<Callback("loadSuggestionsConfig", FALSE)>>

\* C30: dslSuggestionsEngineReady is dispatched once, after the configuration
\* load, then the utilities load, then the rules load have each completed,
\* with or without success, in that order: the script of a step is added only
\* when the step before it has called back.
EngineOrder == <<"config", "utilities", "rules", "dslSuggestionsEngineReady">>

C30_StepsInOrder ==
    entry = "engine" =>
        /\ Len(observed) <= Len(EngineOrder)
        /\ \A i \in DOMAIN observed :
              /\ observed[i].name = EngineOrder[i]
              /\ observed[i].kind = IF i = Len(EngineOrder) THEN "event" ELSE "callback"
        /\ Len(observed) # Len(EngineOrder) - 1
        /\ Len(observed) < Len(EngineOrder) - 1 =>
              \E item \in pending :
                  /\ pending = {item}
                  /\ item.file = EngineScript(EngineOrder[Len(observed) + 1])
        /\ Len(observed) = Len(EngineOrder) => pending = {}

C30_ReadyDispatched ==
    /\ entry = "engine"
    /\ DispatchesOf("dslSuggestionsEngineReady") = 1

C30_ReadyOnceAfterTheThreeLoads ==
    /\ []C30_StepsInOrder
    /\ (entry = "engine") ~> C30_ReadyDispatched

\* the configuration failed to load, the utilities and the rules loaded
C30_Witness ==
    /\ entry = "engine"
    /\ observed = <<Callback("config", FALSE), Callback("utilities", TRUE),
                    Callback("rules", TRUE), Dispatch("dslSuggestionsEngineReady")>>

====
